---- MODULE Spec2Model ----
(***************************************************************************)
(* A model of the Linux platform layer of gpui: the platform facade and    *)
(* its direct-wire (X11) run loop, the compositor-registry (Wayland)       *)
(* client, the window callback slots and the dispatcher.                   *)
(*                                                                         *)
(* One thread (the "main" thread) owns the protocol connection and runs    *)
(* the event loop.  User code (the finish-launching continuation, window   *)
(* callbacks, the quit callback, main-thread tasks) runs on that thread    *)
(* and may re-enter the facade; parking_lot mutexes are not re-entrant, so *)
(* a lock() on a mutex the main thread already holds never returns.        *)
(***************************************************************************)
EXTENDS Integers, Sequences, FiniteSets, TLC

(* ------------------------------ bounds -------------------------------- *)
\* native window ids the connection hands out (generate_id) during a run
MaxWindows == 2
\* facade calls one piece of user code makes before it returns
MaxCalls == 2
\* callback registrations made during a run
MaxRegs == 2
\* distinct callbacks the application can register
MaxCb == 2
\* runnables sent on the main channel during a run
MaxTasks == 2
\* threads spawned by the dispatcher during a run
MaxSpawn == 1
\* native events one dispatch_pending call delivers
MaxBatch == 1
\* pointer events in one pointer frame
MaxFrameLen == 1
\* scroll events recorded for one scroll session
MaxSession == 3
\* redraw calls nested in one another
MaxDepth == 2
\* threads that use the dispatcher's parker
MaxCallers == 3
\* runnables given to dispatch and dispatch_after during a run
MaxThreads == 2
\* the longest duration given to dispatch_after, in ticks
MaxDelay == 2
\* the ticks of the clock during a run
MaxTime == 3
\* the serials the compositor puts on its events are 1 .. MaxSerial
MaxSerial == 2
\* resize notifications routed to the window during a run
MaxResize == 2

Handles == 1 .. MaxWindows
CbIds == 1 .. MaxCb

(* ------------------------------- state -------------------------------- *)
VARIABLES
    backend,         \* "x11" | "wayland": the variant selected at startup
    load,            \* what the application and the server do in this run
    pc,              \* position of the main thread
    ctx,             \* which user code the main thread is running
    ret,             \* where the main thread continues when it returns
    calls,           \* facade calls made by the running user code
    cb_id,           \* identity of the running facade callback (0: none)
    fault,           \* why the main thread stopped ("none" while it runs)
    quit_requested,  \* LinuxPlatformState.quit_requested
    state_lock,      \* the main thread holds the platform state mutex
    client_lock,     \* Wayland: the main thread holds the client state mutex
    callbacks_lock,  \* the main thread holds the callbacks mutex
    windows,         \* X11: HashMap<x::Window, Arc<LinuxWindowState>>
    wl_windows,      \* Wayland: Vec<(XdgSurface, Arc<WaylandWindowState>)>
    next_id,         \* the next native id the connection generates
    closed,          \* the native ids whose window the run loop removed
    callbacks,       \* the facade Callbacks table: slot -> callback (0: None)
    registered,      \* history: the callbacks registered in each slot
    regs,            \* history: registrations made so far
    main_receiver,   \* the runnables queued on the main channel
    sent,            \* history: runnables sent on the main channel so far
    executed,        \* history: the runnables the loop has run, in order
    ran,             \* history: runnables run by the loop this iteration
    handling,        \* history: a native event handler has not returned yet
    threads,         \* threads spawned by the dispatcher: seq of records
    scrolling,       \* the scroll session's "is scrolling" flag
    keymap,          \* X11: the keymap compiled at construction
    device,          \* X11: the keymap the keyboard device has now
    new_pc,          \* X11: position of LinuxPlatform::new
    new_fault,       \* X11: why LinuxPlatform::new stopped ("none": it did not)
    server,          \* X11: what the server answers during construction
    cur,             \* history: the native event being handled
    log,             \* history: window calls made for the current event
    session,         \* history: the scroll events of the current session
    compositor,      \* Wayland: state.compositor is Some
    wm_base,         \* Wayland: state.wm_base is Some
    frame_requests,  \* Wayland: frame callbacks outstanding, per surface
    keyboard,        \* Wayland: state.keyboard is Some
    pointer,         \* Wayland: state.pointer is Some
    live,            \* Wayland: devices obtained and not released, per kind
    window,          \* Wayland: state.window, the focused window (0: None)
    pressed_button,  \* Wayland: state.pressed_button ("none": None)
    frame,           \* Wayland: pointer events of the frame still to handle
    wl_phase,        \* Wayland: which dispatch_pending of the iteration
    batch,           \* Wayland: events delivered by this dispatch_pending
    slots,           \* LinuxWindowState: the callback slots (0: None)
    window_lock,     \* the main thread holds the window's mutex
    redraws,         \* the redraw calls whose frame callback is running
    frame_reg,       \* history: the callback on_request_frame stored last
    tick,            \* history: what the last frame tick fired
    slot_regs,       \* history: window callback registrations so far
    window_fault,    \* why a window call never returned ("none": it did)
    surface,         \* history: what resize did, in order
    before,          \* history: the phase emitted just before this session
    launched,        \* history: calls of on_finish_launching made by run()
    modifiers,       \* Wayland: state.modifiers
    now,             \* the clock, in ticks
    parker_lock,     \* the caller that holds the dispatcher's parker mutex
    token,           \* the Parker has been notified and not yet woken
    callers          \* the threads that use park(), unparker() and unpark()

construction == <<new_pc, new_fault, server>>
setup == <<backend, load, keymap, device, construction>>
control == <<pc, ctx, ret, calls, cb_id, fault>>
locks == <<state_lock, client_lock, callbacks_lock>>
registry == <<windows, wl_windows, next_id, closed>>
table == <<callbacks, registered, regs>>
channel == <<main_receiver, sent, executed>>
history == <<cur, log>>
scroll == <<scrolling, session, before>>
wl_globals == <<compositor, wm_base, frame_requests>>
seat_devices == <<keyboard, pointer, live>>
wl_seat == <<window, pressed_button, modifiers, seat_devices>>
wl_loop == <<frame, wl_phase, batch>>
linux_window == <<slots, window_lock, redraws, frame_reg, tick, slot_regs,
                  window_fault, surface>>
dispatcher == <<now, parker_lock, token, callers>>

vars == <<setup, linux_window, dispatcher, launched, control, quit_requested,
          locks, registry, table, channel, ran, handling, threads, scroll,
          history, wl_globals, wl_seat, wl_loop>>

(* ------------------------- the callback table ------------------------- *)
Slots == {"open_urls", "become_active", "resign_active", "quit", "reopen",
          "event", "app_menu_action", "will_open_app_menu",
          "validate_app_menu_command"}

(* ------------------------------ workloads ----------------------------- *)
\* What the application and the server do during one run: how many windows
\* the application opens, how many callbacks it registers and in which
\* slots, how many runnables reach the main channel, how many threads the
\* dispatcher spawns, which native events, key codes, button codes and
\* pointer events the server sends, and which keymap the device has.
X11Kinds == {"ClientMessage", "Expose", "ConfigureNotify", "MotionNotify",
             "LeaveNotify", "Other", "ButtonPress", "ButtonRelease",
             "KeyPress", "KeyRelease"}
WlKinds == {"xdg_configure", "frame_done", "keyboard_enter", "keyboard_leave",
            "pointer_frame"}
WlKeyKinds == {"press_key", "release_key", "update_modifiers"}
WlSeatKinds == {"new_capability", "remove_capability"}

Loads ==
    { [name |-> "registry", windows |-> MaxWindows, regs |-> 1,
       slots |-> {"quit"}, tasks |-> 0, spawn |-> 0,
       kinds |-> X11Kinds \cup WlKinds, keys |-> {36, 93},
       buttons |-> {1, 3, 4, 272, 274, 275},
       pointer |-> {"Leave", "Enter", "Motion", "Press", "Release"},
       keymaps |-> {"core"}, states |-> {0}, keysyms |-> {}],
      [name |-> "table", windows |-> 1, regs |-> MaxRegs,
       slots |-> Slots, tasks |-> 0, spawn |-> 0,
       kinds |-> {"ClientMessage", "xdg_configure"}, keys |-> {},
       buttons |-> {}, pointer |-> {}, keymaps |-> {"core"},
       states |-> {0}, keysyms |-> {}],
      [name |-> "queue", windows |-> 1, regs |-> 0,
       slots |-> {}, tasks |-> MaxTasks, spawn |-> MaxSpawn,
       kinds |-> {"Expose", "Other", "xdg_configure"}, keys |-> {},
       buttons |-> {}, pointer |-> {}, keymaps |-> {"core"},
       states |-> {0}, keysyms |-> {}],
      [name |-> "scroll", windows |-> 1, regs |-> 0,
       slots |-> {}, tasks |-> 0, spawn |-> 0,
       kinds |-> {"KeyPress", "KeyRelease", "keyboard_enter",
                  "keyboard_leave", "pointer_frame"},
       keys |-> {4, 5, 36}, buttons |-> {},
       pointer |-> {"Axis", "Motion"}, keymaps |-> {"core", "low"},
       states |-> {0}, keysyms |-> {}],
      [name |-> "keys", windows |-> 1, regs |-> 0,
       slots |-> {}, tasks |-> 0, spawn |-> 0,
       kinds |-> {"KeyPress", "KeyRelease", "XkbNotify", "keyboard_enter",
                  "keyboard_leave", "pointer_frame"} \cup WlKeyKinds,
       keys |-> {36, 50}, buttons |-> {272}, pointer |-> {"Motion", "Press"},
       keymaps |-> {"core"}, states |-> {0, 1},
       keysyms |-> {"Return", "a", "Shift_L"}],
      [name |-> "seat", windows |-> 0, regs |-> 0,
       slots |-> {}, tasks |-> 0, spawn |-> 0,
       kinds |-> WlSeatKinds \cup {"Other", "ping"}, keys |-> {},
       buttons |-> {},
       pointer |-> {}, keymaps |-> {"core"}, states |-> {0},
       keysyms |-> {}],
      [name |-> "facade", windows |-> 0, regs |-> 0,
       slots |-> {}, tasks |-> 0, spawn |-> 0,
       kinds |-> {"Other", "unsupported"}, keys |-> {}, buttons |-> {},
       pointer |-> {}, keymaps |-> {"core"}, states |-> {0},
       keysyms |-> {}] }

\* Callbacks::default(): every slot None
CallbacksDefault == [s \in Slots |-> 0]

\* a registration that keeps a callback that is already there
SetSlot_KeepFirst(tbl, slot, f) ==
    IF tbl[slot] = 0 THEN [tbl EXCEPT ![slot] = f] ELSE tbl

\* self.callbacks.lock().<slot> = Some(callback)
SetSlot(tbl, slot, f) == [tbl EXCEPT ![slot] = f]

(* ------------------------------ keymap -------------------------------- *)
\* the details the KeyPress/KeyRelease arms treat as the scroll wheel
ScrollUpDetail == 4
ScrollDownDetail == 5
\* key codes the server sends in KeyPress/KeyRelease details: the two scroll
\* details, Return (36), Shift_L (50) and a code without symbols (93)
Keycodes == {ScrollUpDetail, ScrollDownDetail, 36, 50, 93}

\* The keymaps the device may hand to keymap_new_from_device: in "core" the
\* codes below the X11 minimum key code carry no symbol, in "low" they do.
Keymaps == {"core", "low"}

\* keymap.key_get_syms_by_level(key, 0, 0): the symbols of a key code
key_get_syms_by_level(km, code) ==
    CASE code = 36 -> <<"Return">>
      [] code = 50 -> <<"Shift_L">>
      [] code = ScrollUpDetail -> IF km = "low" THEN <<"F13">> ELSE <<>>
      [] code = ScrollDownDetail -> IF km = "low" THEN <<"F14">> ELSE <<>>
      [] OTHER -> <<>>

\* str::to_lowercase on the keysym names in use
to_lowercase(name) ==
    CASE name = "Return" -> "return"
      [] name = "Shift_L" -> "shift_l"
      [] name = "F13" -> "f13"
      [] name = "F14" -> "f14"
      [] OTHER -> name

\* key.starts_with("shift") || "control" || "super" || "alt"
IsModifierName(key) == key \in {"shift_l", "shift_r", "control_l", "control_r",
                                "super_l", "super_r", "alt_l", "alt_r"}

(* --------------------------- input events ----------------------------- *)
\* Modifiers::default(): no modifier is active
NoModifiers ==
    [control |-> FALSE, alt |-> FALSE, shift |-> FALSE, command |-> FALSE,
     function |-> FALSE]

NoInput ==
    [type |-> "none", key |-> "", phase |-> "none", delta |-> 0,
     button |-> "none", modifiers |-> NoModifiers]
ModifiersChanged == [NoInput EXCEPT !.type = "ModifiersChanged"]
KeyDown(key) == [NoInput EXCEPT !.type = "KeyDown", !.key = key]
KeyUp(key) == [NoInput EXCEPT !.type = "KeyUp", !.key = key]
ScrollWheel(phase, delta) ==
    [NoInput EXCEPT !.type = "ScrollWheel", !.phase = phase, !.delta = delta]
Mouse(type) == [NoInput EXCEPT !.type = type]
MouseButton(type, button) ==
    [NoInput EXCEPT !.type = type, !.button = button]

\* what an event carries: the key or button code and the modifier state of
\* an X11 event, the symbol of a Wayland key event, the capability of a
\* seat event
NoDetail ==
    [code |-> 0, state |-> 0, keysym |-> "", capability |-> "", serial |-> 0]

\* an input that is left with the default modifiers
WithModifiers_Default(input, mods) == input

\* an input with the modifiers the translation read for it
WithModifiers(input, mods) == [input EXCEPT !.modifiers = mods]

NoEvent == [kind |-> "none", win |-> 0, known |-> FALSE, detail |-> NoDetail]

(* --------------------------- control flow ----------------------------- *)
\* the main thread continues at p, outside user code
Goto(p) ==
    /\ pc' = p
    /\ ctx' = "none"
    /\ ret' = "none"
    /\ calls' = 0
    /\ cb_id' = 0
    /\ fault' = fault

\* the main thread enters user code c and continues at r when it returns
Invoke(c, id, r) ==
    /\ pc' = "user"
    /\ ctx' = c
    /\ ret' = r
    /\ calls' = 0
    /\ cb_id' = id
    /\ fault' = fault

\* the main thread stops: a panic unwinds run(), a lock() never returns
Halt(p, why) ==
    /\ pc' = p
    /\ fault' = why
    /\ UNCHANGED <<ctx, ret, calls, cb_id>>

(* ------------------------------- Init --------------------------------- *)
\* the window callback slots
WindowSlots == {"request_frame_callback", "event_callback",
                "activate_callback", "resize_callback",
                "fullscreen_callback", "moved_callback",
                "should_close_callback", "close_callback",
                "appearance_changed_callback"}

\* LinuxWindow::open: every slot None
WindowInit ==
    /\ slots = [s \in WindowSlots |-> 0]
    /\ window_lock = FALSE
    /\ redraws = <<>>
    /\ frame_reg = 0
    /\ tick = [fired |-> 0, latest |-> 0]
    /\ slot_regs = 0
    /\ window_fault = "none"
    /\ surface = <<>>

PlatformInit ==
    /\ pc = "launch"
    /\ ctx = "none"
    /\ ret = "none"
    /\ calls = 0
    /\ cb_id = 0
    /\ fault = "none"
    /\ quit_requested = FALSE
    /\ state_lock = FALSE
    /\ client_lock = FALSE
    /\ callbacks_lock = FALSE
    /\ windows = <<>>
    /\ wl_windows = <<>>
    /\ next_id = 1
    /\ closed = {}
    /\ callbacks = CallbacksDefault
    /\ registered = [s \in Slots |-> <<>>]
    /\ regs = 0
    /\ main_receiver = <<>>
    /\ sent = 0
    /\ executed = <<>>
    /\ ran = 0
    /\ handling = FALSE
    /\ threads = <<>>
    /\ scrolling = FALSE
    /\ cur = NoEvent
    /\ log = <<>>
    /\ session = <<>>
    /\ before = "none"
    /\ launched = 0
    /\ modifiers = NoModifiers
    /\ compositor = FALSE
    /\ wm_base = FALSE
    /\ frame_requests = [s \in Handles |-> 0]
    /\ window = 0
    /\ pressed_button = "none"
    /\ keyboard = FALSE
    /\ pointer = FALSE
    /\ live = [c \in {"Keyboard", "Pointer"} |-> 0]
    /\ frame = <<>>
    /\ wl_phase = 0
    /\ batch = 0

\* the threads that call park(), unparker() and unpark()
Callers == 1 .. MaxCallers

\* LinuxDispatcher::new: a fresh Parker behind a mutex, nobody uses it yet
DispatcherInit ==
    /\ now = 0
    /\ parker_lock = 0
    /\ token = FALSE
    /\ callers = [c \in Callers |-> [st |-> "idle", unparker |-> FALSE]]

\* LinuxPlatform::new / WaylandClient::new: the state when run() is called
\* a server that accepts the connection and supports the keyboard extension
SupportingServer ==
    [connect |-> TRUE, atoms |-> TRUE, reply |-> TRUE, supported |-> TRUE,
     select |-> TRUE]

\* LinuxPlatform::new has returned: the keymap is the one the device had
Constructed ==
    /\ new_pc = "constructed"
    /\ new_fault = "none"
    /\ server = SupportingServer
    /\ device = keymap

Init ==
    /\ backend \in {"x11", "wayland"}
    /\ load \in Loads
    /\ keymap \in (IF backend = "x11" THEN load.keymaps ELSE {"core"})
    /\ Constructed
    /\ PlatformInit
    /\ WindowInit
    /\ DispatcherInit

(* ----------------------------- run: start ------------------------------ *)
\* X11 run(): on_finish_launching() is called before the loop
X11Launch ==
    /\ backend = "x11"
    /\ new_pc = "constructed"
    /\ pc = "launch"
    /\ launched' = launched + 1
    /\ Invoke("ready", 0, "check")
    /\ UNCHANGED <<setup, linux_window, dispatcher,
                   quit_requested, locks, registry,
                   table, channel, ran, handling, threads, scroll, history,
                   wl_globals, wl_seat, wl_loop>>

\* Wayland run(): the registry round-trip binds the globals the compositor
\* advertises, then on_finish_launching() is called
WlLaunch ==
    /\ backend = "wayland"
    /\ pc = "launch"
    /\ compositor' \in BOOLEAN
    /\ wm_base' \in BOOLEAN
    /\ launched' = launched + 1
    /\ Invoke("ready", 0, "check")
    /\ UNCHANGED <<setup, linux_window, dispatcher, frame_requests,
                   quit_requested, locks, registry,
                   table, channel, ran, handling, threads, scroll, history,
                   wl_seat, wl_loop>>

\* a loop that stops whatever the flag says
LoopCondition_Never(q) == FALSE

\* a loop that goes on whatever the flag says
LoopCondition_Always(q) == TRUE

\* while !self.state.lock().quit_requested
LoopCondition(q) == ~q

\* while !self.state.lock().quit_requested: the guard is dropped with the
\* condition; then X11 waits for an event and Wayland dispatches under the
\* client state lock
LoopCheck ==
    /\ pc = "check"
    /\ ran' = 0
    /\ cur' = NoEvent
    /\ log' = <<>>
    /\ IF state_lock
         THEN /\ Halt("deadlock", "state_lock")
              /\ UNCHANGED <<client_lock, wl_phase, batch>>
         ELSE IF ~LoopCondition(quit_requested)
           THEN /\ Goto("done")
                /\ UNCHANGED <<client_lock, wl_phase, batch>>
           ELSE IF backend = "x11"
             THEN /\ Goto("wait")
                  /\ UNCHANGED <<client_lock, wl_phase, batch>>
             ELSE /\ Goto("wl_dispatch")
                  /\ client_lock' = TRUE
                  /\ wl_phase' = 1
                  /\ batch' = 0
    /\ UNCHANGED <<setup, linux_window, dispatcher, launched,
                   quit_requested, state_lock,
                   callbacks_lock, registry, table, channel, handling,
                   threads, scroll, wl_globals, wl_seat, frame>>

(* ------------------------- window state calls -------------------------- *)
\* a call that is not a call of a window method: a facade callback (cb) or
\* a facade operation called by user code
Called(what, cb) ==
    [ws |-> 0, method |-> what, input |-> NoInput, cb |-> cb]

\* A call of a window method (handle_event, expose, configure, destroy,
\* update, resize): the call is recorded, and the window runs the callback
\* registered for it, if there is one, before it returns to r.
CallWindow(base, ws, method, input, r) ==
    \E invoked \in BOOLEAN :
        /\ log' = Append(base, [ws |-> ws, method |-> method,
                                input |-> input, cb |-> invoked])
        /\ IF invoked
             THEN /\ Invoke("window_cb", 0, r)
                  /\ handling' = TRUE
             ELSE /\ Goto(r)
                  /\ handling' = (r # "drain")

(* --------------------------- X11: the loop ----------------------------- *)
\* a lookup that keeps the guard alive while the window method runs
LockAfterLookup_Held == TRUE

\* let window = { let state = self.state.lock(); Arc::clone(..) }: the guard
\* is dropped at the end of the block, before the window method is called
LockAfterLookup == FALSE

Event(kind, w) ==
    [kind |-> kind, win |-> w, known |-> w \in DOMAIN windows,
     detail |-> NoDetail]

\* HashMap::remove
MapRemove(m, k) == [h \in DOMAIN m \ {k} |-> m[h]]

\* an insert that leaves the map as it was
MapInsert_Drop(m, k, v) == m

\* HashMap::insert
MapInsert(m, k, v) == [h \in DOMAIN m \cup {k} |-> IF h = k THEN v ELSE m[h]]

\* the arms that look the window up and call one method on it
X11Arm(kind, w, method, input) ==
    /\ backend = "x11"
    /\ pc = "wait"
    /\ kind \in load.kinds
    /\ cur' = Event(kind, w)
    /\ IF w \notin DOMAIN windows
         THEN /\ Halt("panic", "index_missing_key")
              /\ log' = <<>>
              /\ handling' = TRUE
              /\ UNCHANGED state_lock
         ELSE /\ state_lock' = LockAfterLookup
              /\ CallWindow(<<>>, windows[w], method, input, "drain")
    /\ UNCHANGED <<setup, linux_window, dispatcher, launched,
                   quit_requested, client_lock,
                   callbacks_lock, registry, table, channel, ran, threads,
                   scroll, wl_globals, wl_seat, wl_loop>>

\* ClientMessage: WM_DELETE_WINDOW removes the window and destroys it; a
\* client message with another atom is ignored
X11ClientMessage(w, del) ==
    /\ backend = "x11"
    /\ pc = "wait"
    /\ "ClientMessage" \in load.kinds
    /\ cur' = Event(IF del THEN "WM_DELETE_WINDOW" ELSE "ClientMessage", w)
    /\ IF ~del
         THEN /\ Goto("drain")
              /\ log' = <<>>
              /\ handling' = FALSE
              /\ UNCHANGED <<windows, closed>>
         ELSE IF w \notin DOMAIN windows
           THEN /\ Halt("panic", "remove_unwrap_none")
                /\ log' = <<>>
                /\ handling' = TRUE
                /\ UNCHANGED <<windows, closed>>
           ELSE /\ windows' = MapRemove(windows, w)
                /\ closed' = closed \cup {w}
                /\ CallWindow(<<>>, windows[w], "destroy", NoInput,
                              "after_destroy")
    /\ UNCHANGED <<setup, linux_window, dispatcher, launched,
                   quit_requested, locks, wl_windows,
                   next_id, table, channel, ran, threads, scroll, wl_globals,
                   wl_seat, wl_loop>>

\* if self.state.lock().windows.is_empty() { if let Some(ref mut fun) =
\* self.callbacks.lock().quit { fun(); } }: the callbacks guard lives until
\* the end of the if-let, so fun() runs with the callbacks mutex held
X11QuitIfEmpty ==
    /\ backend = "x11"
    /\ pc = "after_destroy"
    /\ IF state_lock
         THEN /\ Halt("deadlock", "state_lock")
              /\ UNCHANGED <<callbacks_lock, log, handling>>
         ELSE IF DOMAIN windows = {} /\ callbacks["quit"] # 0
           THEN /\ callbacks_lock' = TRUE
                /\ log' = Append(log, Called("quit_callback", TRUE))
                /\ Invoke("quit_cb", callbacks["quit"], "drain")
                /\ handling' = TRUE
           ELSE /\ Goto("drain")
                /\ handling' = FALSE
                /\ UNCHANGED <<callbacks_lock, log>>
    /\ UNCHANGED <<setup, linux_window, dispatcher, launched,
                   quit_requested, state_lock,
                   client_lock, registry, table, channel, ran, threads,
                   scroll, cur, wl_globals, wl_seat, wl_loop>>

X11Expose(w) == X11Arm("Expose", w, "expose", NoInput)

X11ConfigureNotify(w) == X11Arm("ConfigureNotify", w, "configure", NoInput)

X11MotionNotify(w) ==
    X11Arm("MotionNotify", w, "handle_event", Mouse("MouseMove"))

X11LeaveNotify(w) ==
    X11Arm("LeaveNotify", w, "handle_event", Mouse("MouseExited"))

\* ev => {}: every other event, the keyboard-extension notifications included
X11OtherEvent ==
    /\ backend = "x11"
    /\ pc = "wait"
    /\ "Other" \in load.kinds
    /\ cur' = [NoEvent EXCEPT !.kind = "Other"]
    /\ log' = <<>>
    /\ handling' = FALSE
    /\ Goto("drain")
    /\ UNCHANGED <<setup, linux_window, dispatcher, launched,
                   quit_requested, locks, registry,
                   table, channel, ran, threads, scroll, wl_globals, wl_seat,
                   wl_loop>>

\* ev => {}: a NewKeyboardNotify, MapNotify or StateNotify of the keyboard
\* extension, selected in new, tells that the device has another keymap; the
\* arm does nothing and self.keymap stays the one compiled in new
X11XkbNotify(km) ==
    /\ backend = "x11"
    /\ pc = "wait"
    /\ "XkbNotify" \in load.kinds
    /\ cur' = [NoEvent EXCEPT !.kind = "XkbNotify"]
    /\ device' = km
    /\ log' = <<>>
    /\ handling' = FALSE
    /\ Goto("drain")
    /\ UNCHANGED <<backend, load, keymap, construction, linux_window,
                   dispatcher, launched,
                   quit_requested, locks, registry,
                   table, channel, ran, threads, scroll, wl_globals, wl_seat,
                   wl_loop>>

(* ------------------------ X11: keys and buttons ------------------------ *)
\* the scroll events of the session so far, a new session after a stop
Record(sess, stop, rest, phase) ==
    LET e == [stop |-> stop, rest |-> rest, phase |-> phase] IN
    IF sess # <<>> /\ sess[Len(sess)].stop THEN <<e>> ELSE Append(sess, e)

\* the phase emitted just before the session that a scroll event joins
Before(sess, b) ==
    IF sess # <<>> /\ sess[Len(sess)].stop THEN sess[Len(sess)].phase ELSE b

\* a session record has room for n more scroll events
ScrollRoom(n) ==
    IF session = <<>>
      THEN TRUE
      ELSE IF session[Len(session)].stop
        THEN TRUE
        ELSE Len(session) + n <= MaxSession

\* let touch_phase = if scrolling { Moved } else { Started }
X11TouchPhase(scr) == IF scr THEN "Moved" ELSE "Started"

\* if ev.detail() == 5 { 1. } else { -1.0 }
X11LineDelta(detail) == IF detail = ScrollDownDetail THEN 1 ELSE -1

\* an arm that hands the key name on as it is
RenameReturn_Keep(key) == key

\* let key = if key == "return" { "enter" } else { key }
RenameReturn(key) == IF key = "return" THEN "enter" ELSE key

\* modifiers_from_state(ev.state()): bit 0 of the state is the Shift mask
modifiers_from_state(st) == [NoModifiers EXCEPT !.shift = (st % 2 = 1)]

\* the KeyPress arm after the lookups: the input it hands to the window
X11KeyPressInput(key, detail, scr) ==
    IF IsModifierName(key)
      THEN ModifiersChanged
      ELSE IF detail = ScrollUpDetail \/ detail = ScrollDownDetail
        THEN ScrollWheel(X11TouchPhase(scr), X11LineDelta(detail))
        ELSE KeyDown(RenameReturn(key))

\* the KeyRelease arm after the lookups
X11KeyReleaseInput(key, detail) ==
    IF IsModifierName(key)
      THEN ModifiersChanged
      ELSE IF detail = ScrollUpDetail \/ detail = ScrollDownDetail
        THEN ScrollWheel("Ended", X11LineDelta(detail))
        ELSE KeyUp(RenameReturn(key))

\* the shape shared by the KeyPress and KeyRelease arms: look the window
\* up, resolve the key code ([0] on the symbols of the key), hand the input
\* to the window and update the scrolling flag
X11Key(kind, w, detail) ==
    /\ backend = "x11"
    /\ pc = "wait"
    /\ kind \in load.kinds
    /\ detail \in load.keys
    /\ \E st \in load.states :
         /\ cur' = [Event(kind, w) EXCEPT
                      !.detail = [NoDetail EXCEPT !.code = detail,
                                                  !.state = st]]
         /\ LET syms == key_get_syms_by_level(keymap, detail)
                key == to_lowercase(syms[1])
                keyed == IF kind = "KeyPress"
                           THEN X11KeyPressInput(key, detail, scrolling)
                           ELSE X11KeyReleaseInput(key, detail)
                input == WithModifiers(keyed, modifiers_from_state(st))
            IN
            IF w \notin DOMAIN windows
              THEN /\ Halt("panic", "index_missing_key")
                   /\ log' = <<>>
                   /\ handling' = TRUE
                   /\ UNCHANGED <<state_lock, scroll>>
              ELSE IF syms = <<>>
                THEN /\ Halt("panic", "index_out_of_bounds")
                     /\ state_lock' = LockAfterLookup
                     /\ log' = <<>>
                     /\ handling' = TRUE
                     /\ UNCHANGED scroll
                ELSE /\ state_lock' = LockAfterLookup
                     /\ input.type = "ScrollWheel" /\ kind = "KeyPress"
                          => ScrollRoom(1)
                     /\ scrolling' = IF input.type = "ScrollWheel"
                                       THEN kind = "KeyPress"
                                       ELSE scrolling
                     /\ session' = IF input.type = "ScrollWheel"
                                     THEN Record(session, kind = "KeyRelease",
                                                 ~scrolling, input.phase)
                                     ELSE session
                     /\ before' = IF input.type = "ScrollWheel"
                                    THEN Before(session, before)
                                    ELSE before
                     /\ CallWindow(<<>>, windows[w], "handle_event", input,
                                   "drain")
    /\ UNCHANGED <<setup, linux_window, dispatcher, launched,
                   quit_requested, client_lock,
                   callbacks_lock, registry, table, channel, ran, threads,
                   wl_globals, wl_seat, wl_loop>>

X11KeyPress(w, detail) == X11Key("KeyPress", w, detail)

X11KeyRelease(w, detail) == X11Key("KeyRelease", w, detail)

\* the pointer buttons the server reports in ButtonPress/ButtonRelease
X11Buttons == (1 .. 3) \cup {ScrollUpDetail, ScrollDownDetail}

\* button_of_key of the direct-wire variant: the three pointer buttons
x11_button_of_key(detail) ==
    CASE detail = 1 -> "Left"
      [] detail = 2 -> "Middle"
      [] detail = 3 -> "Right"
      [] OTHER -> "none"

\* the ButtonPress and ButtonRelease arms: the window is looked up first,
\* an unrecognised button hands nothing to it
X11Button(kind, type, w, detail) ==
    /\ backend = "x11"
    /\ pc = "wait"
    /\ kind \in load.kinds
    /\ detail \in load.buttons
    /\ cur' = [Event(kind, w) EXCEPT !.detail = [NoDetail EXCEPT
                                                  !.code = detail]]
    /\ IF w \notin DOMAIN windows
         THEN /\ Halt("panic", "index_missing_key")
              /\ log' = <<>>
              /\ handling' = TRUE
              /\ UNCHANGED state_lock
         ELSE /\ state_lock' = LockAfterLookup
              /\ IF x11_button_of_key(detail) # "none"
                   THEN CallWindow(<<>>, windows[w], "handle_event",
                                   MouseButton(type, x11_button_of_key(detail)),
                                   "drain")
                   ELSE /\ Goto("drain")
                        /\ log' = <<>>
                        /\ handling' = FALSE
    /\ UNCHANGED <<setup, linux_window, dispatcher, launched,
                   quit_requested, client_lock,
                   callbacks_lock, registry, table, channel, ran, threads,
                   scroll, wl_globals, wl_seat, wl_loop>>

X11ButtonPress(w, detail) == X11Button("ButtonPress", "MouseDown", w, detail)

X11ButtonRelease(w, detail) == X11Button("ButtonRelease", "MouseUp", w, detail)

(* ------------------------- the main-thread queue ----------------------- *)
\* a loop that keeps draining: while let Ok(runnable) = try_recv()
AfterDrainedTask_Loop == "drain"

\* if let Ok(runnable) = self.main_receiver.try_recv() { runnable.run(); }
\* is the last statement of the loop body
AfterDrainedTask == "check"

\* a channel that hands out its newest message
try_recv_Newest(q) == q[Len(q)]

\* a channel that loses what it still holds when a message is received
Pending_Lost(q) == <<>>

\* flume::unbounded(): try_recv() hands out the oldest message of the
\* channel
try_recv(q) == Head(q)

\* and the channel holds the others, in the order they were sent
Pending(q) == Tail(q)

\* the drain step of both run loops
Drain ==
    /\ pc = "drain"
    /\ IF main_receiver = <<>>
         THEN /\ Goto("check")
              /\ UNCHANGED <<main_receiver, ran, executed>>
         ELSE /\ main_receiver' = Pending(main_receiver)
              /\ executed' = Append(executed, try_recv(main_receiver))
              /\ ran' = ran + 1
              /\ Invoke("task", 0, AfterDrainedTask)
    /\ UNCHANGED <<setup, linux_window, dispatcher, launched,
                   quit_requested, locks, registry,
                   table, sent, handling, threads, scroll, history,
                   wl_globals, wl_seat, wl_loop>>

\* a send on the main channel by a holder of main_sender, from any thread
MainSend ==
    /\ pc \notin {"done", "panic", "deadlock"}
    /\ sent < load.tasks
    /\ sent' = sent + 1
    /\ main_receiver' = Append(main_receiver, sent + 1)
    /\ UNCHANGED executed
    /\ UNCHANGED <<setup, linux_window, dispatcher, launched,
                   control, quit_requested, locks,
                   registry, table, ran, handling, threads, scroll, history,
                   wl_globals, wl_seat, wl_loop>>

(* ------------------------------ dispatcher ----------------------------- *)
\* dispatch_on_main_thread: std::thread::spawn(move || runnable.run())
dispatch_on_main_thread ==
    /\ pc = "user"
    /\ calls < MaxCalls
    /\ Len(threads) < load.spawn
    /\ threads' = Append(threads, [tag |-> "main", st |-> "spawned"])
    /\ calls' = calls + 1
    /\ UNCHANGED <<setup, linux_window, dispatcher, launched,
                   pc, ctx, ret, cb_id, fault,
                   quit_requested, locks, registry, table, channel, ran,
                   handling, scroll, history, wl_globals, wl_seat, wl_loop>>

\* the spawned thread starts running its runnable
ThreadRun(i) ==
    /\ threads[i].st = "spawned"
    /\ threads' = [threads EXCEPT ![i].st = "running"]
    /\ UNCHANGED <<setup, linux_window, dispatcher, launched,
                   control, quit_requested, locks,
                   registry, table, channel, ran, handling, scroll, history,
                   wl_globals, wl_seat, wl_loop>>

\* the runnable returns and the spawned thread ends
ThreadExit(i) ==
    /\ threads[i].st = "running"
    /\ threads' = [threads EXCEPT ![i].st = "done"]
    /\ UNCHANGED <<setup, linux_window, dispatcher, launched,
                   control, quit_requested, locks,
                   registry, table, channel, ran, handling, scroll, history,
                   wl_globals, wl_seat, wl_loop>>

(* ------------------------- user code: the facade ----------------------- *)
\* open_window: X11 generates an id, builds the window state and inserts it
\* under the state lock; Wayland locks the client state, unwraps wm_base and
\* compositor, creates the surfaces and pushes the window
open_window ==
    /\ pc = "user"
    /\ calls < MaxCalls
    /\ next_id <= load.windows
    /\ IF backend = "x11"
         THEN IF state_lock
                THEN /\ Halt("deadlock", "state_lock")
                     /\ UNCHANGED <<registry, log>>
                ELSE /\ windows' = MapInsert(windows, next_id, next_id)
                     /\ next_id' = next_id + 1
                     /\ calls' = calls + 1
                     /\ log' = Append(log, Called("open_window", FALSE))
                     /\ UNCHANGED <<pc, ctx, ret, cb_id, fault, wl_windows,
                                    closed>>
         ELSE IF client_lock
                THEN /\ Halt("deadlock", "client_lock")
                     /\ UNCHANGED <<registry, log>>
                ELSE IF ~wm_base \/ ~compositor
                  THEN /\ Halt("panic", "globals_unwrap_none")
                       /\ UNCHANGED <<registry, log>>
                  ELSE /\ wl_windows' = Append(wl_windows,
                                               [xdg |-> next_id, ws |-> next_id])
                       /\ next_id' = next_id + 1
                       /\ calls' = calls + 1
                       /\ log' = Append(log, Called("open_window", FALSE))
                       /\ UNCHANGED <<pc, ctx, ret, cb_id, fault, windows,
                                      closed>>
    /\ frame_requests' =
         IF backend = "wayland" /\ ~client_lock /\ wm_base /\ compositor
           THEN [frame_requests EXCEPT ![next_id] = @ + 1]
           ELSE frame_requests
    /\ UNCHANGED <<setup, linux_window, dispatcher, launched,
                   quit_requested, locks, table, channel,
                   ran, handling, threads, scroll, cur, compositor, wm_base,
                   wl_seat, wl_loop>>

\* quit: self.state.lock().quit_requested = true
quit ==
    /\ pc = "user"
    /\ calls < MaxCalls
    /\ IF state_lock
         THEN /\ Halt("deadlock", "state_lock")
              /\ UNCHANGED <<quit_requested, log>>
         ELSE /\ quit_requested' = TRUE
              /\ calls' = calls + 1
              /\ log' = Append(log, Called("quit", FALSE))
              /\ UNCHANGED <<pc, ctx, ret, cb_id, fault>>
    /\ UNCHANGED <<setup, linux_window, dispatcher, launched,
                   locks, registry, table, channel, ran,
                   handling, threads, scroll, cur, wl_globals, wl_seat,
                   wl_loop>>

\* the capabilities the facade does not implement
Unimplemented ==
    {"set_display_link_output_callback", "start_display_link",
     "stop_display_link", "prompt_for_paths", "prompt_for_new_path",
     "reveal_path", "write_to_clipboard", "read_from_clipboard",
     "write_credentials", "read_credentials", "delete_credentials"}

\* what the body of each does: unimplemented!() panics, an empty body and
\* a body that only logs return (), read_from_clipboard returns None
Outcome(op) ==
    CASE op = "set_display_link_output_callback" -> "returns"
      [] op = "write_to_clipboard" -> "returns"
      [] op = "read_from_clipboard" -> "None"
      [] OTHER -> "panic"

\* user code calls a capability the facade does not implement
CallUnimplemented(op) ==
    /\ backend = "x11"
    /\ pc = "user"
    /\ calls < MaxCalls
    /\ "unsupported" \in load.kinds
    /\ IF Outcome(op) = "panic"
         THEN /\ Halt("panic", "unimplemented")
              /\ log' = Append(log, Called(op, FALSE))
         ELSE /\ calls' = calls + 1
              /\ log' = Append(log, Called(op, FALSE))
              /\ UNCHANGED <<pc, ctx, ret, cb_id, fault>>
    /\ UNCHANGED <<setup, linux_window, dispatcher, launched,
                   quit_requested, locks, registry, table, channel, ran,
                   handling, threads, scroll, cur, wl_globals, wl_seat,
                   wl_loop>>

\* on_quit and its siblings: self.callbacks.lock().<slot> = Some(callback)
Register(slot, f) ==
    /\ pc = "user"
    /\ calls < MaxCalls
    /\ regs < load.regs
    /\ slot \in load.slots
    /\ IF callbacks_lock
         THEN /\ Halt("deadlock", "callbacks_lock")
              /\ UNCHANGED <<table, log>>
         ELSE /\ callbacks' = SetSlot(callbacks, slot, f)
              /\ registered' = [registered EXCEPT ![slot] = Append(@, f)]
              /\ log' = Append(log, Called("register", FALSE))
              /\ regs' = regs + 1
              /\ calls' = calls + 1
              /\ UNCHANGED <<pc, ctx, ret, cb_id, fault>>
    /\ UNCHANGED <<setup, linux_window, dispatcher, launched,
                   quit_requested, locks, registry,
                   channel, ran, handling, threads, scroll, cur, wl_globals,
                   wl_seat, wl_loop>>

on_quit(f) == Register("quit", f)

on_open_urls(f) == Register("open_urls", f)

on_become_active(f) == Register("become_active", f)

on_resign_active(f) == Register("resign_active", f)

on_reopen(f) == Register("reopen", f)

on_event(f) == Register("event", f)

on_app_menu_action(f) == Register("app_menu_action", f)

on_will_open_app_menu(f) == Register("will_open_app_menu", f)

on_validate_app_menu_command(f) == Register("validate_app_menu_command", f)

\* the user code returns; the quit callback's return ends the if-let that
\* holds the callbacks guard
UserReturn ==
    /\ pc = "user"
    /\ callbacks_lock' = IF ctx = "quit_cb" THEN FALSE ELSE callbacks_lock
    /\ handling' = IF ret \in {"drain", "check"} THEN FALSE ELSE handling
    /\ Goto(ret)
    /\ UNCHANGED <<setup, linux_window, dispatcher, launched,
                   quit_requested, state_lock,
                   client_lock, registry, table, channel, ran, threads,
                   scroll, history, wl_globals, wl_seat, wl_loop>>

(* ------------------------ Wayland: the handlers ------------------------ *)
Min(S) == CHOOSE x \in S : \A y \in S : x <= y

\* the windows of the registry whose surface is s, in Vec order
WlMatches(s) == {i \in DOMAIN wl_windows : wl_windows[i].xdg = s}

WlEvent(kind, s) ==
    [kind |-> kind, win |-> s, known |-> WlMatches(s) # {},
     detail |-> NoDetail]

\* the serials of the compositor's events
Serials == 1 .. MaxSerial

\* a request the client sends to the compositor in answer to an event
Request(what, serial) ==
    [ws |-> 0, method |-> what, input |-> NoInput, cb |-> FALSE,
     serial |-> serial]

\* an acknowledgement that does not carry the serial of the event
ack_configure_Stale(serial) == Request("ack_configure", 0)

\* xdg_surface.ack_configure(serial)
ack_configure(serial) == Request("ack_configure", serial)

\* wm_base.pong(serial)
pong(serial) == Request("pong", serial)

\* Dispatch<XdgSurface>: Configure is acknowledged, the first window with
\* that surface is updated and committed
WlXdgConfigure(s, serial) ==
    /\ backend = "wayland"
    /\ pc = "wl_dispatch"
    /\ batch < MaxBatch
    /\ "xdg_configure" \in load.kinds
    /\ batch' = batch + 1
    /\ cur' = [WlEvent("xdg_configure", s) EXCEPT !.detail.serial = serial]
    /\ IF WlMatches(s) = {}
         THEN /\ log' = <<ack_configure(serial)>>
              /\ handling' = TRUE
              /\ UNCHANGED control
         ELSE CallWindow(<<ack_configure(serial)>>,
                         wl_windows[Min(WlMatches(s))].ws, "update",
                         NoInput, "wl_dispatch")
    /\ UNCHANGED <<setup, linux_window, dispatcher, launched,
                   quit_requested, locks, registry,
                   table, channel, ran, threads, scroll, wl_globals, wl_seat,
                   frame, wl_phase>>

\* Dispatch<XdgWmBase>: a Ping is answered with a pong of its serial
WlPing(serial) ==
    /\ backend = "wayland"
    /\ pc = "wl_dispatch"
    /\ batch < MaxBatch
    /\ "ping" \in load.kinds
    /\ batch' = batch + 1
    /\ cur' = [NoEvent EXCEPT !.kind = "ping", !.detail.serial = serial]
    /\ log' = <<pong(serial)>>
    /\ handling' = TRUE
    /\ UNCHANGED <<setup, linux_window, dispatcher, launched,
                   control, quit_requested, locks,
                   registry, table, channel, ran, threads, scroll, wl_globals,
                   wl_seat, frame, wl_phase>>

\* a Done that leaves the request it answers outstanding
FramesAfterDone_Keep(outstanding, matches) == outstanding + matches

\* a Done uses up the request it answers; the handler requests a frame for
\* every window with that surface
FramesAfterDone(outstanding, matches) == outstanding - 1 + matches

\* Dispatch<WlCallback, Arc<WlSurface>>: Done for a frame request of a
\* surface; the window with that surface requests the next frame, is updated
\* and committed
WlCallbackDone(s) ==
    /\ backend = "wayland"
    /\ pc = "wl_dispatch"
    /\ batch < MaxBatch
    /\ "frame_done" \in load.kinds
    /\ frame_requests[s] > 0
    /\ batch' = batch + 1
    /\ cur' = WlEvent("frame_done", s)
    /\ frame_requests' =
         [frame_requests EXCEPT
            ![s] = FramesAfterDone(@, Cardinality(WlMatches(s)))]
    /\ IF WlMatches(s) = {}
         THEN /\ log' = <<>>
              /\ handling' = TRUE
              /\ UNCHANGED control
         ELSE CallWindow(<<>>, wl_windows[Min(WlMatches(s))].ws, "update",
                         NoInput, "wl_dispatch")
    /\ UNCHANGED <<setup, linux_window, dispatcher, launched,
                   quit_requested, locks, registry,
                   table, channel, ran, threads, scroll, compositor, wm_base,
                   wl_seat, frame, wl_phase>>

\* KeyboardHandler::enter: the first window with that surface gets the focus
WlKeyboardEnter(s) ==
    /\ backend = "wayland"
    /\ pc = "wl_dispatch"
    /\ batch < MaxBatch
    /\ "keyboard_enter" \in load.kinds
    /\ batch' = batch + 1
    /\ cur' = WlEvent("keyboard_enter", s)
    /\ log' = <<>>
    /\ handling' = TRUE
    /\ window' = IF WlMatches(s) = {}
                   THEN window
                   ELSE wl_windows[Min(WlMatches(s))].ws
    /\ UNCHANGED <<setup, linux_window, dispatcher, launched,
                   control, quit_requested, locks,
                   registry, table, channel, ran, threads, scroll, wl_globals,
                   pressed_button, modifiers, seat_devices, frame, wl_phase>>

\* a leave that keeps the focused window
FocusAfterLeave_Keep(focused) == focused

\* self.window = None
FocusAfterLeave(focused) == 0

\* KeyboardHandler::leave: self.window = None
WlKeyboardLeave ==
    /\ backend = "wayland"
    /\ pc = "wl_dispatch"
    /\ batch < MaxBatch
    /\ "keyboard_leave" \in load.kinds
    /\ batch' = batch + 1
    /\ cur' = [NoEvent EXCEPT !.kind = "keyboard_leave"]
    /\ log' = <<>>
    /\ handling' = TRUE
    /\ window' = FocusAfterLeave(window)
    /\ UNCHANGED <<setup, linux_window, dispatcher, launched,
                   control, quit_requested, locks,
                   registry, table, channel, ran, threads, scroll, wl_globals,
                   pressed_button, modifiers, seat_devices, frame, wl_phase>>

\* the symbols the compositor reports for a key: Return, a letter, a modifier
Keysyms == {"Return", "a", "Shift_L"}

\* keysym_to_key: the name of a symbol of the table, "" for None
keysym_to_key(keysym) ==
    CASE keysym = "Return" -> "enter"
      [] OTHER -> ""

\* event.utf8: the text a key produces, "" for None
utf8(keysym) ==
    CASE keysym = "Return" -> "\r"
      [] keysym = "a" -> "a"
      [] OTHER -> ""

\* Option::or
Or(a, b) == IF a # "" THEN a ELSE b

\* what the seat reports about the modifiers: none, or Shift
SeatModifiers == {NoModifiers, [NoModifiers EXCEPT !.shift = TRUE]}

\* the keyboard events that go to the window with the focus, if there is one
WlKeyEvent(kind, keysym) ==
    [kind |-> kind, win |-> window, known |-> window # 0,
     detail |-> [NoDetail EXCEPT !.keysym = keysym]]

\* KeyboardHandler::press_key: a KeyDown for the window with the focus when
\* the symbol has a name or a text
WlPressKey(keysym) ==
    /\ backend = "wayland"
    /\ pc = "wl_dispatch"
    /\ batch < MaxBatch
    /\ "press_key" \in load.kinds
    /\ keysym \in load.keysyms
    /\ batch' = batch + 1
    /\ cur' = WlKeyEvent("press_key", keysym)
    /\ LET key == Or(keysym_to_key(keysym), utf8(keysym)) IN
       IF window = 0
         THEN /\ log' = <<>>
              /\ handling' = TRUE
              /\ UNCHANGED control
         ELSE IF key = ""
           THEN /\ log' = <<>>
                /\ handling' = TRUE
                /\ UNCHANGED control
           ELSE CallWindow(<<>>, window, "handle_key",
                           WithModifiers(KeyDown(to_lowercase(key)),
                                         modifiers),
                           "wl_dispatch")
    /\ UNCHANGED <<setup, linux_window, dispatcher, launched,
                   quit_requested, locks, registry,
                   table, channel, ran, threads, scroll, wl_globals, wl_seat,
                   frame, wl_phase>>

\* KeyboardHandler::release_key: a KeyUp without a key name
WlReleaseKey(keysym) ==
    /\ backend = "wayland"
    /\ pc = "wl_dispatch"
    /\ batch < MaxBatch
    /\ "release_key" \in load.kinds
    /\ keysym \in load.keysyms
    /\ batch' = batch + 1
    /\ cur' = WlKeyEvent("release_key", keysym)
    /\ IF window = 0
         THEN /\ log' = <<>>
              /\ handling' = TRUE
              /\ UNCHANGED control
         ELSE CallWindow(<<>>, window, "handle_event",
                         WithModifiers(KeyUp(""), modifiers), "wl_dispatch")
    /\ UNCHANGED <<setup, linux_window, dispatcher, launched,
                   quit_requested, locks, registry,
                   table, channel, ran, threads, scroll, wl_globals, wl_seat,
                   frame, wl_phase>>

\* KeyboardHandler::update_modifiers: self.modifiers = Modifiers { .. }
WlUpdateModifiers(mods) ==
    /\ backend = "wayland"
    /\ pc = "wl_dispatch"
    /\ batch < MaxBatch
    /\ "update_modifiers" \in load.kinds
    /\ batch' = batch + 1
    /\ cur' = [NoEvent EXCEPT !.kind = "update_modifiers"]
    /\ log' = <<>>
    /\ handling' = TRUE
    /\ modifiers' = mods
    /\ UNCHANGED <<setup, linux_window, dispatcher, launched,
                   control, quit_requested, locks,
                   registry, table, channel, ran, threads, scroll, wl_globals,
                   window, pressed_button, seat_devices, frame, wl_phase>>

\* the capabilities a seat announces
Capabilities == {"Keyboard", "Pointer", "Touch"}

\* a test that attaches a device whatever the slot holds
CanAttach_Always(slot) == TRUE

\* self.keyboard.is_none(), self.pointer.is_none()
CanAttach(slot) == ~slot

\* SeatHandler::new_capability: a keyboard or a pointer is obtained from the
\* seat and stored when its slot is empty
WlNewCapability(capability) ==
    /\ backend = "wayland"
    /\ pc = "wl_dispatch"
    /\ batch < MaxBatch
    /\ "new_capability" \in load.kinds
    /\ batch' = batch + 1
    /\ cur' = [NoEvent EXCEPT !.kind = "new_capability",
                              !.detail.capability = capability]
    /\ log' = <<>>
    /\ handling' = TRUE
    /\ IF capability = "Keyboard" /\ CanAttach(keyboard)
         THEN /\ keyboard' = TRUE
              /\ live' = [live EXCEPT !["Keyboard"] = @ + 1]
              /\ UNCHANGED pointer
         ELSE IF capability = "Pointer" /\ CanAttach(pointer)
           THEN /\ pointer' = TRUE
                /\ live' = [live EXCEPT !["Pointer"] = @ + 1]
                /\ UNCHANGED keyboard
           ELSE UNCHANGED seat_devices
    /\ UNCHANGED <<setup, linux_window, dispatcher, launched,
                   control, quit_requested, locks,
                   registry, table, channel, ran, threads, scroll, wl_globals,
                   window, pressed_button, modifiers, frame, wl_phase>>

\* SeatHandler::remove_capability: self.keyboard.take().unwrap().release()
WlRemoveCapability(capability) ==
    /\ backend = "wayland"
    /\ pc = "wl_dispatch"
    /\ batch < MaxBatch
    /\ "remove_capability" \in load.kinds
    /\ batch' = batch + 1
    /\ cur' = [NoEvent EXCEPT !.kind = "remove_capability",
                              !.detail.capability = capability]
    /\ log' = <<>>
    /\ handling' = TRUE
    /\ IF capability = "Keyboard" /\ keyboard
         THEN /\ keyboard' = FALSE
              /\ live' = [live EXCEPT !["Keyboard"] = @ - 1]
              /\ UNCHANGED pointer
         ELSE IF capability = "Pointer" /\ pointer
           THEN /\ pointer' = FALSE
                /\ live' = [live EXCEPT !["Pointer"] = @ - 1]
                /\ UNCHANGED keyboard
           ELSE UNCHANGED seat_devices
    /\ UNCHANGED <<setup, linux_window, dispatcher, launched,
                   control, quit_requested, locks,
                   registry, table, channel, ran, threads, scroll, wl_globals,
                   window, pressed_button, modifiers, frame, wl_phase>>

\* the button codes the compositor reports: the three known ones and another
WlButtons == 272 .. 275

\* a table that takes every code for the left button
button_of_key_Any(button) == "Left"

\* button_of_key
button_of_key(button) ==
    CASE button = 272 -> "Left"
      [] button = 274 -> "Middle"
      [] button = 273 -> "Right"
      [] OTHER -> "none"

PointerEvents ==
    [kind : {"Leave", "Enter", "Motion"}, button : {0}, stop : {FALSE}]
    \cup [kind : {"Press", "Release"}, button : WlButtons, stop : {FALSE}]
    \cup [kind : {"Axis"}, button : {0}, stop : BOOLEAN]

PointerFrames ==
    UNION {[1 .. n -> PointerEvents] : n \in 1 .. MaxFrameLen}

\* the scroll events of a frame that do not stop the session
AxisCount(events) ==
    Cardinality({i \in DOMAIN events :
                    events[i].kind = "Axis" /\ ~events[i].stop})

\* an Axis event that reports the phase without looking at the stop flags
TouchPhaseAxis_IgnoreStop(stop, scr) == IF scr THEN "Moved" ELSE "Started"

\* let touch_phase = if horizontal.stop || vertical.stop { Ended }
\*                   else if self.scrolling { Moved } else { Started }
TouchPhaseAxis(stop, scr) ==
    IF stop THEN "Ended" ELSE IF scr THEN "Moved" ELSE "Started"

\* a stop that leaves the scrolling flag as it is
ScrollingAfterAxis_KeepOnStop(stop, scr) == IF stop THEN scr ELSE TRUE

\* the scrolling flag after an Axis event
ScrollingAfterAxis(stop, scr) == IF stop THEN FALSE ELSE TRUE

\* PointerHandler::pointer_frame: nothing happens without a focused window
WlPointerFrame(events) ==
    /\ backend = "wayland"
    /\ pc = "wl_dispatch"
    /\ batch < MaxBatch
    /\ "pointer_frame" \in load.kinds
    /\ \A i \in DOMAIN events :
         /\ events[i].kind \in load.pointer
         /\ events[i].kind \in {"Press", "Release"}
              => events[i].button \in load.buttons
    /\ ScrollRoom(AxisCount(events))
    /\ batch' = batch + 1
    /\ cur' = [kind |-> "pointer_frame", win |-> window,
               known |-> window # 0, detail |-> NoDetail]
    /\ log' = <<>>
    /\ handling' = TRUE
    /\ IF window = 0
         THEN UNCHANGED <<control, frame>>
         ELSE /\ frame' = events
              /\ Goto("wl_frame")
    /\ UNCHANGED <<setup, linux_window, dispatcher, launched,
                   quit_requested, locks, registry,
                   table, channel, ran, threads, scroll, wl_globals, wl_seat,
                   wl_phase>>

\* the input one pointer event hands to the window ("none": nothing)
WlPointerInput(e, scr) ==
    CASE e.kind = "Leave" -> Mouse("MouseExited")
      [] e.kind = "Motion" -> Mouse("MouseMove")
      [] e.kind = "Press" -> MouseButton("MouseDown", button_of_key(e.button))
      [] e.kind = "Release" -> MouseButton("MouseUp", button_of_key(e.button))
      [] e.kind = "Axis" -> ScrollWheel(TouchPhaseAxis(e.stop, scr), 0)
      [] OTHER -> NoInput

\* an event of the frame hands something to the window
WlPointerEmits(e) ==
    \/ e.kind \in {"Leave", "Motion", "Axis"}
    \/ e.kind \in {"Press", "Release"} /\ button_of_key(e.button) # "none"

\* one turn of the loop over the events of the frame
WlPointerEvent ==
    /\ backend = "wayland"
    /\ pc = "wl_frame"
    /\ frame # <<>>
    /\ LET e == Head(frame)
           r == IF Tail(frame) = <<>> THEN "wl_dispatch" ELSE "wl_frame"
       IN
       /\ frame' = Tail(frame)
       /\ cur' = [cur EXCEPT !.detail = [NoDetail EXCEPT !.code = e.button]]
       /\ scrolling' = IF e.kind = "Axis"
                         THEN ScrollingAfterAxis(e.stop, scrolling)
                         ELSE scrolling
       /\ session' = IF e.kind = "Axis"
                       THEN Record(session, e.stop, ~scrolling,
                                   WlPointerInput(e, scrolling).phase)
                       ELSE session
       /\ before' = IF e.kind = "Axis"
                      THEN Before(session, before)
                      ELSE before
       /\ pressed_button' =
            CASE e.kind = "Press" /\ button_of_key(e.button) # "none"
                   -> button_of_key(e.button)
              [] e.kind = "Release" -> "none"
              [] OTHER -> pressed_button
       /\ IF WlPointerEmits(e)
            THEN CallWindow(log, window, "handle_event",
                            WithModifiers(WlPointerInput(e, scrolling),
                                          modifiers), r)
            ELSE /\ Goto(r)
                 /\ UNCHANGED <<log, handling>>
    /\ UNCHANGED <<setup, linux_window, dispatcher, launched,
                   quit_requested, locks, registry,
                   table, channel, ran, threads, wl_globals, window,
                   modifiers, seat_devices, wl_phase, batch>>

\* dispatch_pending returns and its state guard is dropped; after the first
\* one, prepare_read may hand out a guard: the socket is read and the events
\* are dispatched under the state lock again
WlDispatchEnd ==
    /\ backend = "wayland"
    /\ pc = "wl_dispatch"
    /\ handling' = FALSE
    /\ \E readable \in BOOLEAN :
         IF wl_phase = 1 /\ readable
           THEN /\ client_lock' = TRUE
                /\ wl_phase' = 2
                /\ batch' = 0
                /\ UNCHANGED control
           ELSE /\ client_lock' = FALSE
                /\ Goto("drain")
                /\ UNCHANGED <<wl_phase, batch>>
    /\ UNCHANGED <<setup, linux_window, dispatcher, launched,
                   quit_requested, state_lock,
                   callbacks_lock, registry, table, channel, ran, threads,
                   scroll, history, wl_globals, wl_seat, frame>>

(* --------------------- LinuxWindow: callback slots --------------------- *)
platform == <<setup, dispatcher, launched, control, quit_requested, locks,
              registry, table, channel, ran, handling, threads, scroll,
              history, wl_globals, wl_seat, wl_loop>>

\* a registration that stores the callback in every slot
SetWindowSlot_FanOut(sl, slot, f) == [s \in DOMAIN sl |-> f]

\* self.0.lock().<slot> = Some(callback)
SetWindowSlot(sl, slot, f) == [sl EXCEPT ![slot] = f]

\* on_request_frame and its siblings; user code calls them between frames
\* and from inside a running frame callback
WindowRegister(slot, f) ==
    /\ window_fault = "none"
    /\ slot_regs < MaxRegs
    /\ IF window_lock
         THEN /\ window_fault' = "window_lock"
              /\ UNCHANGED <<slots, frame_reg, slot_regs>>
         ELSE /\ slots' = SetWindowSlot(slots, slot, f)
              /\ frame_reg' = IF slot = "request_frame_callback"
                                THEN f
                                ELSE frame_reg
              /\ slot_regs' = slot_regs + 1
              /\ UNCHANGED window_fault
    /\ UNCHANGED <<platform, window_lock, redraws, tick, surface>>

on_request_frame(f) == WindowRegister("request_frame_callback", f)

on_input(f) == WindowRegister("event_callback", f)

on_active_status_change(f) == WindowRegister("activate_callback", f)

on_resize(f) == WindowRegister("resize_callback", f)

on_fullscreen(f) == WindowRegister("fullscreen_callback", f)

on_moved(f) == WindowRegister("moved_callback", f)

on_should_close(f) == WindowRegister("should_close_callback", f)

on_close(f) == WindowRegister("close_callback", f)

on_appearance_changed(f) == WindowRegister("appearance_changed_callback", f)

\* a redraw that calls the callback and leaves it in its slot
take_Leave(sl) == sl

\* this.request_frame_callback.take(): the slot is left empty
take(sl) == [sl EXCEPT !["request_frame_callback"] = 0]

\* redraw, up to the call of the frame callback: the callback is taken out
\* of its slot and the guard is dropped before it is called; with an empty
\* slot redraw returns at once.  A frame tick calls redraw between frames,
\* user code may call it from inside a running frame callback.
redraw ==
    /\ window_fault = "none"
    /\ Len(redraws) < MaxDepth
    /\ IF window_lock
         THEN /\ window_fault' = "window_lock"
              /\ UNCHANGED <<slots, redraws, tick>>
         ELSE IF slots["request_frame_callback"] # 0
           THEN /\ slots' = take(slots)
                /\ redraws' = Append(redraws, slots["request_frame_callback"])
                /\ tick' = IF redraws = <<>>
                             THEN [fired |-> slots["request_frame_callback"],
                                   latest |-> frame_reg]
                             ELSE tick
                /\ UNCHANGED window_fault
           ELSE UNCHANGED <<slots, redraws, tick, window_fault>>
    /\ UNCHANGED <<platform, window_lock, frame_reg, slot_regs, surface>>

\* redraw, after the frame callback has returned:
\* self.0.lock().request_frame_callback = Some(callback)
RedrawReturn ==
    /\ window_fault = "none"
    /\ redraws # <<>>
    /\ IF window_lock
         THEN /\ window_fault' = "window_lock"
              /\ UNCHANGED <<slots, redraws>>
         ELSE /\ slots' = SetWindowSlot(slots, "request_frame_callback",
                                        redraws[Len(redraws)])
              /\ redraws' = SubSeq(redraws, 1, Len(redraws) - 1)
              /\ UNCHANGED window_fault
    /\ UNCHANGED <<platform, window_lock, frame_reg, tick, slot_regs,
                   surface>>

\* one step of resize: what it did, and the callback on_resize had stored
\* when it did it
Step(op) == [op |-> op, resize_callback |-> slots["resize_callback"]]

\* LinuxWindow::resize: under the guard the new size goes to the renderer
\* and a redraw is requested; the resize callback is not called
resize ==
    /\ window_fault = "none"
    /\ Len(surface) < 2 * MaxResize
    /\ IF window_lock
         THEN /\ window_fault' = "window_lock"
              /\ UNCHANGED surface
         ELSE /\ surface' = surface \o <<Step("renderer.resize"),
                                         Step("request_redraw")>>
              /\ UNCHANGED window_fault
    /\ UNCHANGED <<platform, slots, window_lock, redraws, frame_reg, tick,
                   slot_regs>>

\* a window on its own: the platform is not running
InitWindow ==
    /\ backend = "none"
    /\ load = CHOOSE l \in Loads : l.name = "table"
    /\ keymap = "core"
    /\ Constructed
    /\ PlatformInit
    /\ WindowInit
    /\ DispatcherInit

NextWindow ==
    \/ \E f \in CbIds : on_request_frame(f)
    \/ \E f \in CbIds : on_input(f)
    \/ \E f \in CbIds : on_active_status_change(f)
    \/ \E f \in CbIds : on_resize(f)
    \/ \E f \in CbIds : on_fullscreen(f)
    \/ \E f \in CbIds : on_moved(f)
    \/ \E f \in CbIds : on_should_close(f)
    \/ \E f \in CbIds : on_close(f)
    \/ \E f \in CbIds : on_appearance_changed(f)
    \/ redraw
    \/ RedrawReturn
    \/ resize

SpecWindow == InitWindow /\ [][NextWindow]_vars

(* --------------------- LinuxDispatcher: the threads -------------------- *)
\* everything but the dispatcher's threads and its parker
loop_state == <<setup, linux_window, launched, control, quit_requested, locks,
                registry, table, channel, ran, handling, scroll, history,
                wl_globals, wl_seat, wl_loop>>

\* What the users of a dispatcher do during one run: they submit runnables,
\* or they park and unpark.
DispatcherLoads ==
    { [name |-> "threads", threads |-> MaxThreads, callers |-> {}],
      [name |-> "parker", threads |-> 0, callers |-> Callers] }

\* std::thread::spawn(closure) at the time now: the thread exists, its
\* closure has not begun
Spawned(tag, d) ==
    [tag |-> tag, st |-> "spawned", at |-> now, d |-> d, wake |-> 0,
     ran_at |-> 0]

\* a sleep that returns at once
SleepDue_None(start, d) == start

\* thread::sleep(duration) begun at start returns no earlier than this
SleepDue(start, d) == start + d

\* time passes
Tick ==
    /\ load.threads > 0
    /\ now < MaxTime
    /\ now' = now + 1
    /\ UNCHANGED <<loop_state, threads, parker_lock, token, callers>>

\* dispatch: std::thread::spawn(move || runnable.run())
dispatch ==
    /\ Len(threads) < load.threads
    /\ threads' = Append(threads, Spawned("dispatch", 0))
    /\ UNCHANGED <<loop_state, dispatcher>>

\* dispatch_after: std::thread::spawn(move || { thread::sleep(duration);
\* runnable.run(); })
dispatch_after(d) ==
    /\ Len(threads) < load.threads
    /\ threads' = Append(threads, Spawned("after", d))
    /\ UNCHANGED <<loop_state, dispatcher>>

\* the closure of dispatch_after begins: thread::sleep(duration)
SleepStart(i) ==
    /\ threads[i].tag = "after"
    /\ threads[i].st = "spawned"
    /\ threads' = [threads EXCEPT ![i].st = "sleeping",
                                  ![i].wake = SleepDue(now, threads[i].d)]
    /\ UNCHANGED <<loop_state, dispatcher>>

\* thread::sleep returns, at its due time or later, and runnable.run() begins
SleepEnd(i) ==
    /\ threads[i].st = "sleeping"
    /\ now >= threads[i].wake
    /\ threads' = [threads EXCEPT ![i].st = "running", ![i].ran_at = now]
    /\ UNCHANGED <<loop_state, dispatcher>>

\* the closure of dispatch begins: runnable.run()
RunnableStart(i) ==
    /\ threads[i].tag = "dispatch"
    /\ threads[i].st = "spawned"
    /\ threads' = [threads EXCEPT ![i].st = "running", ![i].ran_at = now]
    /\ UNCHANGED <<loop_state, dispatcher>>

\* runnable.run() returns and the thread ends
RunnableEnd(i) ==
    /\ threads[i].st = "running"
    /\ threads' = [threads EXCEPT ![i].st = "done"]
    /\ UNCHANGED <<loop_state, dispatcher>>

(* --------------------- LinuxDispatcher: the parker --------------------- *)
\* self.parker.lock() has returned in park(): Parker::park() returns at once
\* when the parker was notified, else it blocks, and the guard, a temporary
\* of the statement, is held until park() returns
ParkLocked(c) ==
    IF token
      THEN /\ token' = FALSE
           /\ callers' = [callers EXCEPT ![c].st = "idle"]
           /\ UNCHANGED parker_lock
      ELSE /\ parker_lock' = c
           /\ callers' = [callers EXCEPT ![c].st = "parked"]
           /\ UNCHANGED token

\* park: self.parker.lock().park()
park(c) ==
    /\ c \in load.callers
    /\ callers[c].st = "idle"
    /\ IF parker_lock = 0
         THEN ParkLocked(c)
         ELSE /\ callers' = [callers EXCEPT ![c].st = "park_wait"]
              /\ UNCHANGED <<parker_lock, token>>
    /\ UNCHANGED <<loop_state, threads, now>>

\* a park() that waited for the mutex gets it
ParkLockAcquired(c) ==
    /\ callers[c].st = "park_wait"
    /\ parker_lock = 0
    /\ ParkLocked(c)
    /\ UNCHANGED <<loop_state, threads, now>>

\* a parked thread is notified: Parker::park() returns, the guard is dropped
ParkWake(c) ==
    /\ callers[c].st = "parked"
    /\ token
    /\ token' = FALSE
    /\ parker_lock' = 0
    /\ callers' = [callers EXCEPT ![c].st = "idle"]
    /\ UNCHANGED <<loop_state, threads, now>>

\* unparker: self.parker.lock().unparker()
unparker(c) ==
    /\ c \in load.callers
    /\ callers[c].st = "idle"
    /\ ~callers[c].unparker
    /\ IF parker_lock = 0
         THEN callers' = [callers EXCEPT ![c].unparker = TRUE]
         ELSE callers' = [callers EXCEPT ![c].st = "unparker_wait"]
    /\ UNCHANGED <<loop_state, threads, now, parker_lock, token>>

\* an unparker() that waited for the mutex gets it
UnparkerLockAcquired(c) ==
    /\ callers[c].st = "unparker_wait"
    /\ parker_lock = 0
    /\ callers' = [callers EXCEPT ![c].st = "idle", ![c].unparker = TRUE]
    /\ UNCHANGED <<loop_state, threads, now, parker_lock, token>>

\* Unparker::unpark on an Unparker the caller holds: the parker is notified
unpark(c) ==
    /\ callers[c].st = "idle"
    /\ callers[c].unparker
    /\ token' = TRUE
    /\ UNCHANGED <<loop_state, threads, now, parker_lock, callers>>

\* a dispatcher on its own: the platform is not running
InitDispatcher ==
    /\ backend = "none"
    /\ load \in DispatcherLoads
    /\ keymap = "core"
    /\ Constructed
    /\ PlatformInit
    /\ WindowInit
    /\ DispatcherInit

NextDispatcher ==
    \/ Tick
    \/ dispatch
    \/ \E d \in 0 .. MaxDelay : dispatch_after(d)
    \/ \E i \in DOMAIN threads : SleepStart(i)
    \/ \E i \in DOMAIN threads : SleepEnd(i)
    \/ \E i \in DOMAIN threads : RunnableStart(i)
    \/ \E i \in DOMAIN threads : RunnableEnd(i)
    \/ \E c \in Callers : park(c)
    \/ \E c \in Callers : ParkLockAcquired(c)
    \/ \E c \in Callers : ParkWake(c)
    \/ \E c \in Callers : unparker(c)
    \/ \E c \in Callers : UnparkerLockAcquired(c)
    \/ \E c \in Callers : unpark(c)

SpecDispatcher == InitDispatcher /\ [][NextDispatcher]_vars

(* ------------------------------- Next ---------------------------------- *)
Next ==
    \/ X11Launch
    \/ WlLaunch
    \/ LoopCheck
    \/ \E w \in Handles : \E del \in BOOLEAN : X11ClientMessage(w, del)
    \/ X11QuitIfEmpty
    \/ \E w \in Handles : X11Expose(w)
    \/ \E w \in Handles : X11ConfigureNotify(w)
    \/ \E w \in Handles : X11MotionNotify(w)
    \/ \E w \in Handles : X11LeaveNotify(w)
    \/ X11OtherEvent
    \/ \E km \in Keymaps : X11XkbNotify(km)
    \/ \E w \in Handles : \E d \in Keycodes : X11KeyPress(w, d)
    \/ \E w \in Handles : \E d \in Keycodes : X11KeyRelease(w, d)
    \/ \E w \in Handles : \E d \in X11Buttons : X11ButtonPress(w, d)
    \/ \E w \in Handles : \E d \in X11Buttons : X11ButtonRelease(w, d)
    \/ Drain
    \/ MainSend
    \/ dispatch_on_main_thread
    \/ \E i \in DOMAIN threads : ThreadRun(i)
    \/ \E i \in DOMAIN threads : ThreadExit(i)
    \/ open_window
    \/ quit
    \/ \E op \in Unimplemented : CallUnimplemented(op)
    \/ \E f \in CbIds : on_quit(f)
    \/ \E f \in CbIds : on_open_urls(f)
    \/ \E f \in CbIds : on_become_active(f)
    \/ \E f \in CbIds : on_resign_active(f)
    \/ \E f \in CbIds : on_reopen(f)
    \/ \E f \in CbIds : on_event(f)
    \/ \E f \in CbIds : on_app_menu_action(f)
    \/ \E f \in CbIds : on_will_open_app_menu(f)
    \/ \E f \in CbIds : on_validate_app_menu_command(f)
    \/ UserReturn
    \/ \E s \in Handles : \E serial \in Serials : WlXdgConfigure(s, serial)
    \/ \E serial \in Serials : WlPing(serial)
    \/ \E s \in Handles : WlCallbackDone(s)
    \/ \E s \in Handles : WlKeyboardEnter(s)
    \/ WlKeyboardLeave
    \/ \E keysym \in Keysyms : WlPressKey(keysym)
    \/ \E keysym \in Keysyms : WlReleaseKey(keysym)
    \/ \E mods \in SeatModifiers : WlUpdateModifiers(mods)
    \/ \E capability \in Capabilities : WlNewCapability(capability)
    \/ \E capability \in Capabilities : WlRemoveCapability(capability)
    \/ \E events \in PointerFrames : WlPointerFrame(events)
    \/ WlPointerEvent
    \/ WlDispatchEnd

Spec == Init /\ [][Next]_vars

(* ------------------ the run loops under fair scheduling ---------------- *)
\* a run whose senders queue runnables while the server keeps sending events
InitQueue ==
    /\ Init
    /\ load.name = "queue"

\* the native events of that run
QueueEvent ==
    \/ \E w \in Handles : X11Expose(w)
    \/ X11OtherEvent
    \/ \E s \in Handles : \E serial \in Serials : WlXdgConfigure(s, serial)

NextQueue ==
    \/ X11Launch
    \/ WlLaunch
    \/ LoopCheck
    \/ QueueEvent
    \/ WlDispatchEnd
    \/ Drain
    \/ MainSend
    \/ open_window
    \/ quit
    \/ UserReturn

\* The main thread is never starved: run() takes its next step (the launch,
\* the loop condition, the end of a dispatch, the drain), user code it
\* called returns, and wait_for_event returns because the server keeps
\* sending events.
FairQueue ==
    /\ WF_vars(X11Launch)
    /\ WF_vars(WlLaunch)
    /\ WF_vars(LoopCheck)
    /\ WF_vars(QueueEvent)
    /\ WF_vars(WlDispatchEnd)
    /\ WF_vars(Drain)
    /\ WF_vars(UserReturn)

SpecQueue == InitQueue /\ [][NextQueue]_vars /\ FairQueue

(* ---------------------- X11: LinuxPlatform::new ------------------------ *)
\* everything the constructed platform owns
running == <<linux_window, dispatcher, launched, control, quit_requested,
             locks, registry, table, channel, ran, handling, threads, scroll,
             history, wl_globals, wl_seat, wl_loop>>

\* what the server may answer: the connection, the atoms, the reply to
\* UseExtension and whether it reports the version as supported, the check
\* of SelectEvents
Servers ==
    [connect : BOOLEAN, atoms : BOOLEAN, reply : BOOLEAN,
     supported : BOOLEAN, select : BOOLEAN]

\* an assertion that is not made
Supported_Unchecked(xkbver) == TRUE

\* assert!(xkbver.supported(), ..)
Supported(xkbver) == xkbver.supported

\* one statement of new: it goes on, or its unwrap / assert panics
NewStage(at, ok, next, why) ==
    /\ backend = "x11"
    /\ new_pc = at
    /\ IF ok
         THEN /\ new_pc' = next
              /\ UNCHANGED new_fault
         ELSE /\ new_pc' = "panic"
              /\ new_fault' = why
    /\ UNCHANGED <<backend, load, device, server, running>>

\* xcb::Connection::connect(None).unwrap()
connect ==
    /\ NewStage("connect", server.connect, "intern_all", "connect_unwrap")
    /\ UNCHANGED keymap

\* XcbAtoms::intern_all(&xcb_connection).unwrap()
intern_all ==
    /\ NewStage("intern_all", server.atoms, "use_extension",
                "intern_all_unwrap")
    /\ UNCHANGED keymap

\* wait_for_reply(send_request(&UseExtension { .. })).unwrap()
UseExtension ==
    /\ NewStage("use_extension", server.reply, "assert_supported",
                "use_extension_unwrap")
    /\ UNCHANGED keymap

\* assert!(xkbver.supported(), "required xcb-xkb-{}-{} is not supported")
AssertSupported ==
    /\ NewStage("assert_supported", Supported(server), "select_events",
                "xkb_not_supported")
    /\ UNCHANGED keymap

\* check_request(send_request_checked(&SelectEvents { .. })).unwrap()
SelectEvents ==
    /\ NewStage("select_events", server.select, "keymap",
                "select_events_unwrap")
    /\ UNCHANGED keymap

\* keymap_new_from_device, then Self { .. }: the value exists
keymap_new_from_device ==
    /\ NewStage("keymap", TRUE, "constructed", "none")
    /\ keymap' = device

\* construction from the start, against any server
InitNew ==
    /\ backend = "x11"
    /\ load = CHOOSE l \in Loads : l.name = "table"
    /\ keymap = "none"
    /\ device \in Keymaps
    /\ server \in Servers
    /\ new_pc = "connect"
    /\ new_fault = "none"
    /\ PlatformInit
    /\ WindowInit
    /\ DispatcherInit

NextNew ==
    \/ connect
    \/ intern_all
    \/ UseExtension
    \/ AssertSupported
    \/ SelectEvents
    \/ keymap_new_from_device
    \/ X11Launch

SpecNew == InitNew /\ [][NextNew]_vars

(* ============================== claims ================================ *)
\* the entries of the log that satisfy a test
Entries(method) == {i \in DOMAIN log : log[i].method = method}

\* the events that are addressed to a native handle
Addressed ==
    cur.kind \notin {"none", "Other", "XkbNotify", "keyboard_leave"}
                    \cup WlKeyKinds \cup WlSeatKinds

\* the main thread stopped on a lookup of a handle that is not registered
StaleHandleFault == fault \in {"index_missing_key", "remove_unwrap_none"}

\* C1: every call made for an event addressed to a registered handle goes to
\* the window state registered for that handle, and an event addressed to a
\* handle that is not in the registry makes no call, invokes no callback and
\* does not stop the run loop (the protocol acknowledgement of a Configure
\* is no call of a window).
C1_RoutedToRegisteredHandleOnly ==
    Addressed =>
        /\ cur.known => \A i \in DOMAIN log : log[i].ws \in {cur.win, 0}
        /\ ~cur.known =>
              /\ \A i \in DOMAIN log : log[i].method = "ack_configure"
              /\ ~StaleHandleFault

\* C2: the close notification that removes the last window invokes the quit
\* callback exactly once, and a close notification for a handle that has
\* been removed (an id below next_id that is no longer a key of the registry)
\* invokes nothing and does not stop the run loop.
C2_QuitOnceOnLastClose ==
    /\ Cardinality(Entries("quit_callback")) <= 1
    /\ Entries("quit_callback") # {}
         => cur.kind = "WM_DELETE_WINDOW" /\ cur.known
    /\ cur.kind = "WM_DELETE_WINDOW" /\ cur.known /\ pc = "drain"
       /\ DOMAIN windows = {} /\ callbacks["quit"] # 0
         => Cardinality(Entries("quit_callback")) = 1
    /\ cur.kind = "WM_DELETE_WINDOW" /\ ~cur.known /\ cur.win < next_id
         => log = <<>> /\ ~StaleHandleFault

\* C3: a frame callback that registers another frame callback while it runs
\* does not deadlock, and every frame tick fires the callback that
\* on_request_frame stored last.
C3_TickFiresLatestRegistration ==
    /\ window_fault = "none"
    /\ tick.fired = tick.latest

\* the callback registered last in a slot (0: none yet)
LastRegistered(slot) ==
    IF registered[slot] = <<>>
      THEN 0
      ELSE registered[slot][Len(registered[slot])]

\* C4: every slot of the facade table holds the callback registered last in
\* it, and the quit callback that is invoked is the one registered last.
C4_LastWriterWins ==
    /\ \A slot \in Slots : callbacks[slot] = LastRegistered(slot)
    /\ ctx = "quit_cb" => cb_id # 0 /\ cb_id = LastRegistered("quit")

\* C4 witness: on_quit(f1), on_quit(f2) with another callback, and the close
\* of the last window has invoked the quit callback
C4_Witness ==
    /\ ctx = "quit_cb"
    /\ Len(registered["quit"]) >= 2
    /\ registered["quit"][1] # registered["quit"][2]
    /\ Cardinality(Entries("quit_callback")) = 1

\* C5: a runnable given to dispatch_on_main_thread never runs on another
\* thread while the run loop is handling a native event.
C5_MainThreadTaskNotConcurrent ==
    \A i \in DOMAIN threads :
        threads[i].tag = "main" /\ threads[i].st = "running" => ~handling

\* C6: an iteration of either run loop runs at most one runnable of the main
\* channel, and runs it after the native event handling of the iteration has
\* returned (no handler is running and the dispatch lock is released).
C6_OneTaskAfterHandling ==
    /\ ran <= 1
    /\ ctx = "task" => ~handling /\ ~client_lock /\ ran = 1

\* C6 witness: a runnable runs after an event was handled in this iteration,
\* and another runnable stays queued
C6_Witness ==
    /\ ctx = "task"
    /\ cur.kind \in {"Expose", "xdg_configure"}
    /\ log # <<>>
    /\ main_receiver # <<>>

\* C7: a quit callback that calls on_quit while it is being invoked does not
\* wait for the callbacks mutex forever.
C7_QuitCallbackMayRegister ==
    ~(pc = "deadlock" /\ ctx = "quit_cb" /\ fault = "callbacks_lock")

\* C8: in the direct-wire variant the state mutex is not held while a window
\* method or callback runs, and no call of open_window or quit waits for it
\* forever.
C8_X11StateLockReleased ==
    backend = "x11" =>
        /\ ctx = "window_cb" => ~state_lock
        /\ fault # "state_lock"

\* C8 witness: a window callback has called open_window and quit and runs on
C8_Witness ==
    /\ backend = "x11"
    /\ pc = "user"
    /\ ctx = "window_cb"
    /\ Entries("open_window") # {}
    /\ Entries("quit") # {}

\* C9: in the compositor-registry variant a window callback invoked from
\* pointer_frame that calls open_window does not wait for the client state
\* mutex forever.
C9_WlCallbackMayOpenWindow ==
    ~(backend = "wayland" /\ pc = "deadlock" /\ fault = "client_lock"
      /\ ctx = "window_cb" /\ cur.kind = "pointer_frame")

\* the phases of the scroll events of a session
Phases(sess) == [i \in DOMAIN sess |-> sess[i].phase]

\* C10: a scroll session that starts at rest with a scroll event has the
\* phases Started, then Moved for every further scroll event, then Ended for
\* the stop notification.
C10_ScrollPhaseSequence ==
    session # <<>> /\ session[1].rest /\ ~session[1].stop =>
        /\ session[1].phase = "Started"
        /\ \A i \in 2 .. Len(session) :
               session[i].phase = IF session[i].stop THEN "Ended" ELSE "Moved"
        /\ \A i \in 1 .. Len(session) - 1 : ~session[i].stop

\* C10 witness: a whole gesture, Started, Moved, Ended
C10_Witness ==
    /\ Len(session) = 3
    /\ session[1].rest
    /\ Phases(session) = <<"Started", "Moved", "Ended">>

\* C11: every scroll event emitted with the phase Ended was emitted while the
\* scrolling flag was set, that is after a Started of the same session.
C11_EndedOnlyAfterStarted ==
    \A i \in DOMAIN session :
        session[i].phase = "Ended" => ~session[i].rest

C13_ReadyOnceThenLoop ==
    /\ launched <= 1
    /\ pc # "launch" => launched = 1
    /\ launched = 0 \/ ctx = "ready" => cur = NoEvent /\ ran = 0 /\ ~handling
    /\ pc = "done" => quit_requested

\* C13 witness: run() has called on_finish_launching, looped and returned
C13_Witness ==
    /\ pc = "done"
    /\ launched = 1
    /\ DOMAIN windows # {} \/ wl_windows # <<>>

\* C14: a step that sets the quit flag changes nothing else of the loop and
\* returns to its caller; a loop check that sees the flag set makes run()
\* return; and once run() has returned no native event is handled and no
\* runnable of the main channel is run.
C14_QuitObservedAtLoopTop ==
    [][/\ quit_requested' # quit_requested
          => /\ quit_requested'
             /\ pc = "user" /\ pc' = "user" /\ ctx' = ctx /\ ret' = ret
             /\ UNCHANGED <<registry, cur, ran, channel, locks>>
       /\ pc = "check" /\ quit_requested /\ ~state_lock /\ pc' # pc
          => pc' = "done" /\ cur' = NoEvent
       /\ pc = "done"
          => UNCHANGED <<pc, ctx, cur, log, ran, handling>>]_vars

\* C14 witness: run() has returned after a quit while a runnable is still
\* queued on the main channel
C14_Witness ==
    /\ pc = "done"
    /\ quit_requested
    /\ main_receiver # <<>>

\* C15: the runnable of dispatch_after(D, f) never begins before D has
\* passed since it was submitted, and a thread spawned by dispatch is never
\* kept from running its runnable by a dispatch_after that is still waiting.
C15_DispatchAfterWaits ==
    /\ \A i \in DOMAIN threads :
           threads[i].tag = "after" /\ threads[i].st \in {"running", "done"}
             => threads[i].ran_at >= threads[i].at + threads[i].d
    /\ \A i \in DOMAIN threads :
           threads[i].tag = "dispatch" /\ threads[i].st = "spawned"
             => ENABLED RunnableStart(i)

\* C15 witness: a dispatch_after with a positive duration, submitted after
\* another one, has run its runnable to the end while the first still sleeps
C15_Witness ==
    \E i, j \in DOMAIN threads :
        /\ i < j
        /\ threads[i].tag = "after" /\ threads[i].d > 0
        /\ threads[i].st = "sleeping"
        /\ threads[j].tag = "after" /\ threads[j].d > 0
        /\ threads[j].st = "done"

\* C19: a call of unparker() never waits for the parker mutex, so a thread
\* can always obtain an Unparker, also while another thread is parked.
C19_UnparkerNeverBlocks ==
    \A c \in Callers : callers[c].st # "unparker_wait"

\* the calls of the log that hand an input to a window
InputCalls == {i \in DOMAIN log : log[i].method \in {"handle_event",
                                                     "handle_key"}}

\* a press of the Return key with no modifier active was translated for a
\* window: an X11 KeyPress whose code has the symbol Return and whose state
\* is 0, a Wayland press_key of Return while the seat reports no modifier
ReturnPressed ==
    \/ /\ cur.kind = "KeyPress"
       /\ cur.known
       /\ key_get_syms_by_level(keymap, cur.detail.code) = <<"Return">>
       /\ cur.detail.state = 0
    \/ /\ cur.kind = "press_key"
       /\ cur.known
       /\ cur.detail.keysym = "Return"
       /\ modifiers = NoModifiers

\* C16: the translation of a press of the Return key with no active modifier
\* hands the window exactly one input, a KeyDown whose key is "enter" and
\* whose modifiers are all false, on X11 and on Wayland.
C16_ReturnIsEnter ==
    ReturnPressed =>
        /\ Cardinality(InputCalls) = 1
        /\ \A i \in InputCalls : log[i].input = KeyDown("enter")

C16_Witness ==
    /\ backend = "wayland"
    /\ ReturnPressed
    /\ ctx = "window_cb"
    /\ \E i \in InputCalls : log[i].input.key = "enter"

\* the registry has a window state under a native handle
Registered(h) ==
    IF backend = "x11" THEN h \in DOMAIN windows ELSE WlMatches(h) # {}

\* the handles of the windows that open_window had returned when the event
\* being handled was taken: the log holds the calls made since
OpenedBefore ==
    1 .. (next_id - 1 - Cardinality(Entries("open_window")))

\* C17: open_window registers the window state under its native handle
\* before it returns: every handle it has returned is in the registry until
\* the run loop removes it, and an event addressed to such a handle after
\* the return finds the window state.
C17_RegisteredBeforeReturn ==
    /\ \A h \in 1 .. (next_id - 1) : h \in closed \/ Registered(h)
    /\ Addressed /\ cur.win \in OpenedBefore \ closed
         => cur.known /\ ~StaleHandleFault

C17_Witness ==
    /\ Addressed
    /\ cur.win \in OpenedBefore \ closed
    /\ cur.known
    /\ Entries("open_window") # {}
    /\ \A h \in 1 .. (next_id - 1) : Registered(h)

\* C18: when the server reports that a window is to be closed, the
\* callbacks of the window run before its handle is removed from the
\* registry: while a callback of the window runs for that report, the
\* handle is still registered.
C18_CallbacksBeforeRemoval ==
    cur.kind = "WM_DELETE_WINDOW" /\ cur.known /\ ctx = "window_cb"
        => Registered(cur.win)

\* C20: the registry holds at most one window state for a native handle,
\* a handle the run loop has removed is not in the registry again, and an
\* event that refers to a removed handle is a no-op: it does not stop the
\* run loop on a failed lookup.
C20_OneStatePerHandleAndStaleEventsIgnored ==
    /\ \A h \in Handles : Cardinality(WlMatches(h)) <= 1
    /\ closed \cap DOMAIN windows = {}
    /\ Addressed /\ cur.win \in closed /\ ~cur.known
         => log = <<>> /\ fault = "none"

\* a registration of f into a window slot puts f there and nothing else
ReplacesOnly(slot, f) ==
    WindowRegister(slot, f) /\ window_fault' = "none"
        => /\ slots'[slot] = f
           /\ \A other \in WindowSlots \ {slot} : slots'[other] = slots[other]

\* C21: a window callback slot holds one callback: a registration into a
\* slot replaces the callback that was there and leaves every other slot as
\* it was.
C21_RegistrationReplacesOneSlot ==
    [][\A slot \in WindowSlots : \A f \in CbIds : ReplacesOnly(slot, f)]_vars

C21_Witness ==
    /\ slot_regs = 2
    /\ redraws = <<>>
    /\ slots["event_callback"] = 2
    /\ \A other \in WindowSlots \ {"event_callback"} : slots[other] = 0

\* a press or release of a key whose symbol names a modifier was translated
\* for a window: an X11 key event for a registered handle, a Wayland key
\* event while a window has the keyboard focus
ModifierKeyed ==
    \/ /\ cur.kind \in {"KeyPress", "KeyRelease"}
       /\ cur.known
       /\ LET syms == key_get_syms_by_level(keymap, cur.detail.code) IN
          IF syms = <<>> THEN FALSE ELSE IsModifierName(to_lowercase(syms[1]))
    \/ /\ cur.kind \in {"press_key", "release_key"}
       /\ cur.known
       /\ IsModifierName(to_lowercase(cur.detail.keysym))

\* C22: a press or release of a modifier key hands the window no KeyDown
\* and no KeyUp, but exactly one ModifiersChanged, on X11 and on Wayland.
C22_ModifierKeyEmitsModifiersChanged ==
    ModifierKeyed =>
        /\ Cardinality(InputCalls) = 1
        /\ \A i \in InputCalls : log[i].input.type = "ModifiersChanged"

\* C23: on Wayland the modifiers snapshot changes only in update_modifiers,
\* and every key or pointer input handed to a window carries the snapshot
\* as update_modifiers set it last (all false before the first one).
C23_SnapshotIsSingleSource ==
    [][backend = "wayland" =>
         /\ modifiers' # modifiers => cur'.kind = "update_modifiers"
         /\ \A i \in InputCalls' : log'[i].input.modifiers = modifiers']_vars

C23_Witness ==
    /\ backend = "wayland"
    /\ cur.kind = "pointer_frame"
    /\ modifiers.shift
    /\ \E i \in InputCalls : /\ log[i].input.type = "MouseDown"
                             /\ log[i].input.modifiers = modifiers

\* the fixed enumeration of the pointer buttons, "none" for any other code
ButtonName(code) ==
    CASE code \in {1, 272} -> "Left"
      [] code \in {2, 274} -> "Middle"
      [] code \in {3, 273} -> "Right"
      [] OTHER -> "none"

\* an X11 ButtonPress or ButtonRelease for a registered handle hands the
\* window the named button, or nothing when the code has no name
X11ButtonMapped ==
    cur.kind \in {"ButtonPress", "ButtonRelease"} /\ cur.known =>
        IF ButtonName(cur.detail.code) = "none"
          THEN InputCalls = {} /\ fault = "none"
          ELSE /\ Cardinality(InputCalls) = 1
               /\ \A i \in InputCalls :
                    log[i].input =
                      MouseButton(IF cur.kind = "ButtonPress"
                                    THEN "MouseDown" ELSE "MouseUp",
                                  ButtonName(cur.detail.code))

\* the turn of the Wayland frame loop for a Press or Release hands the
\* window the named button, or nothing when the code has no name
WlButtonMapped ==
    /\ backend = "wayland" /\ pc = "wl_frame"
    /\ frame # <<>> /\ frame' = Tail(frame)
    /\ Head(frame).kind \in {"Press", "Release"}
    => LET e == Head(frame) IN
       IF ButtonName(e.button) = "none"
         THEN log' = log /\ fault' = "none" /\ pc' \notin {"panic", "deadlock"}
         ELSE /\ Len(log') = Len(log) + 1
              /\ log'[Len(log')].input =
                   WithModifiers(MouseButton(IF e.kind = "Press"
                                               THEN "MouseDown" ELSE "MouseUp",
                                             ButtonName(e.button)),
                                 modifiers)

\* C24: the pointer button codes map to Left, Middle and Right (Wayland:
\* 272, 274, 273); a press or release with another code hands the window
\* no MouseDown or MouseUp and does not stop the run loop.
C24_ButtonsMapOrDrop ==
    [][WlButtonMapped /\ X11ButtonMapped']_vars

C24_Witness ==
    /\ backend = "wayland"
    /\ cur.kind = "pointer_frame"
    /\ cur.known
    /\ cur.detail.code = 275
    /\ pc = "wl_dispatch"
    /\ frame = <<>>
    /\ log = <<>>
    /\ fault = "none"

\* a key event for a window whose key cannot be resolved: an X11 key code
\* without a symbol in the keymap, a Wayland key without a name in the
\* table and without text
KeyUnresolved ==
    \/ /\ cur.kind \in {"KeyPress", "KeyRelease"}
       /\ cur.known
       /\ key_get_syms_by_level(keymap, cur.detail.code) = <<>>
    \/ /\ cur.kind \in {"press_key", "release_key"}
       /\ cur.known
       /\ Or(keysym_to_key(cur.detail.keysym), utf8(cur.detail.keysym)) = ""

\* C25: a key press or release whose key cannot be resolved is dropped:
\* nothing is handed to the window and the run loop does not stop.
C25_UnresolvedKeyDropped ==
    KeyUnresolved => InputCalls = {} /\ fault = "none"

\* C26: on Wayland every surface has at most one frame request outstanding:
\* the next frame is requested only when Done has fired for the previous
\* request.
C26_OneOutstandingFrame ==
    \A s \in Handles : frame_requests[s] <= 1

C26_Witness ==
    /\ cur.kind = "frame_done"
    /\ cur.known
    /\ frame_requests[cur.win] = 1
    /\ \E i \in DOMAIN log : log[i].method = "update" /\ log[i].ws = cur.win

\* C27: seat capabilities attach and detach the input devices: at most one
\* keyboard and one pointer are held, a slot is occupied exactly when its
\* device is, and a capability that goes away leaves the slot empty.
C27_OneDevicePerKind ==
    /\ live["Keyboard"] = (IF keyboard THEN 1 ELSE 0)
    /\ live["Pointer"] = (IF pointer THEN 1 ELSE 0)
    /\ cur.kind = "new_capability"
         => /\ cur.detail.capability = "Keyboard" => keyboard
            /\ cur.detail.capability = "Pointer" => pointer
    /\ cur.kind = "remove_capability"
         => /\ cur.detail.capability = "Keyboard" => ~keyboard
            /\ cur.detail.capability = "Pointer" => ~pointer

C27_Witness ==
    /\ cur.kind = "new_capability"
    /\ cur.detail.capability = "Keyboard"
    /\ keyboard /\ live["Keyboard"] = 1
    /\ pointer /\ live["Pointer"] = 1

\* C28: on Wayland a required global that the registry round-trip did not
\* bind is fatal at startup: on_finish_launching is not invoked and the
\* run loop is not entered without the compositor and the shell, and
\* open_window never fails on a missing global.
C28_MissingGlobalFatalAtStartup ==
    backend = "wayland" =>
        /\ launched > 0 => compositor /\ wm_base
        /\ fault # "globals_unwrap_none"

\* C29: on X11, when the connection cannot be established or the server
\* does not support the required version of the keyboard extension,
\* construction aborts: no platform value exists and its run loop is never
\* entered.
C29_ConstructionAbortsWithoutXkb ==
    /\ new_pc = "constructed"
          => server.connect /\ server.reply /\ server.supported
    /\ launched > 0 => new_pc = "constructed"
    /\ ~server.connect \/ ~server.supported => pc = "launch"

C29_Witness ==
    /\ server.connect
    /\ ~server.supported
    /\ new_pc = "panic"
    /\ new_fault = "xkb_not_supported"
    /\ launched = 0

\* C30: on X11 the compiled keymap follows the notifications of the
\* keyboard extension: a key event is resolved with the keymap the device
\* has as of the last notification, not with the one compiled at startup.
C30_KeymapResynchronized ==
    /\ backend = "x11"
    /\ cur.kind \in {"KeyPress", "KeyRelease"}
    /\ InputCalls # {}
    => keymap = device

(* ------------------------------ C31 ----------------------------------- *)
\* C31: a call of a capability the backend does not implement neither
\* crashes the process nor returns as if it had succeeded: the caller gets
\* an explicit unsupported outcome.
C31_UnsupportedIsReported ==
    /\ fault # "unimplemented"
    /\ \A i \in DOMAIN log :
          log[i].method \in Unimplemented =>
              Outcome(log[i].method) = "unsupported"

(* ------------------------------ C32 ----------------------------------- *)
\* C32: a resize routed to a window invokes the registered on_resize
\* callback before the new size is forwarded to the render surface: every
\* step that hands the size to the renderer while a resize callback is
\* registered comes right after a call of that callback.
C32_OnResizeBeforeSurface ==
    \A i \in DOMAIN surface :
        (surface[i].op = "renderer.resize"
            /\ surface[i].resize_callback # 0)
        => /\ i > 1
           /\ surface[i - 1].op = "resize_callback"

(* ------------------------------ C33 ----------------------------------- *)
\* C33: under X11 a button press or release whose code is a scroll-wheel
\* button (4 or 5) reaches the window as a ScrollWheel event with a delta
\* of one line (5: +1, 4: -1), and as no MouseDown, MouseUp or key event.
C33_ScrollButtonsBecomeScrollWheel ==
    (/\ backend = "x11"
     /\ pc \in {"drain", "user"}
     /\ fault = "none"
     /\ cur.kind \in {"ButtonPress", "ButtonRelease"}
     /\ cur.known
     /\ cur.detail.code \in {ScrollUpDetail, ScrollDownDetail})
    => /\ InputCalls # {}
       /\ \A i \in InputCalls :
             /\ log[i].input.type = "ScrollWheel"
             /\ log[i].input.delta =
                  IF cur.detail.code = ScrollDownDetail THEN 1 ELSE -1

(* ------------------------------ C34 ----------------------------------- *)
\* the runnable t is on the main channel
Queued(t) == \E i \in DOMAIN main_receiver : main_receiver[i] = t

\* the loop has run the runnable t
Executed(t) == \E i \in DOMAIN executed : executed[i] = t

\* C34: while the loop is alive, quit has not been requested and native
\* events keep arriving, every runnable queued on the main channel is run in
\* the end; and under X11 a runnable is only run in an iteration that has
\* received a native event, so one queued while the loop waits for an event
\* stays queued until an event arrives.
C34_QueuedTaskEventuallyRuns ==
    /\ \A t \in 1 .. MaxTasks :
          Queued(t) ~> (Executed(t) \/ quit_requested \/ fault # "none")
    /\ [](backend = "x11" /\ ctx = "task" => cur.kind # "none")

\* C34 witness: the X11 loop has run both runnables, each after an event,
\* and goes on
C34_Witness ==
    /\ backend = "x11"
    /\ executed = <<1, 2>>
    /\ ctx = "task"
    /\ cur.kind = "Other"
    /\ ~quit_requested
    /\ fault = "none"

(* ------------------------------ C35 ----------------------------------- *)
\* C35: the loop runs the runnables of the main channel in the order they
\* were queued, and each of them at most once: what it has run so far is
\* the first runnables sent, in sending order, and what is still queued is
\* the rest.
C35_FifoAtMostOnce ==
    /\ executed \o main_receiver = [i \in 1 .. sent |-> i]
    /\ \A i, j \in DOMAIN executed : executed[i] = executed[j] => i = j

\* C35 witness: two runnables were sent and the loop has run both
C35_Witness ==
    /\ executed = <<1, 2>>
    /\ main_receiver = <<>>
    /\ pc = "check"
    /\ fault = "none"

(* ------------------------------ C36 ----------------------------------- *)
\* a step in which the loop receives a native event and routes it
RoutesEvent ==
    \/ pc = "wait" /\ pc' # "wait"
    \/ pc = "wl_dispatch" /\ batch' = batch + 1

\* C36: once quit() has been called the loop routes no further native
\* event and runs at most one further runnable, the one of the drain of the
\* iteration in progress: the iteration has run none yet when it runs it,
\* the next loop check ends run(), and nothing is run after that.
C36_QuitStopsTheLoop ==
    [][quit_requested =>
         /\ ~RoutesEvent
         /\ executed' # executed => pc = "drain" /\ ran = 0 /\ ran' = 1
         /\ pc = "check" /\ pc' # pc => pc' \in {"done", "deadlock"}
         /\ pc = "done" => UNCHANGED <<pc, executed>>]_vars

(* ------------------------------ C37 ----------------------------------- *)
\* a step in which the Wayland client dispatches an event of the given kind
Dispatches(kind) == pc = "wl_dispatch" /\ batch' = batch + 1 /\ cur'.kind = kind

\* C37: under Wayland the focused window is the one whose surface received
\* the most recent keyboard enter on a registered surface, a keyboard leave
\* clears it and nothing else changes it; every key and pointer event is
\* handed to the focused window, and to no window while there is none.
C37_InputFollowsKeyboardFocus ==
    [][backend = "wayland" =>
         /\ window' # window =>
               Dispatches("keyboard_enter") \/ Dispatches("keyboard_leave")
         /\ Dispatches("keyboard_leave") => window' = 0
         /\ Dispatches("keyboard_enter") =>
               window' = IF cur'.known
                           THEN wl_windows[Min(WlMatches(cur'.win))].ws
                           ELSE window
         /\ \A i \in InputCalls' : window' # 0 /\ log'[i].ws = window']_vars

\* C37 witness: the second window has the keyboard focus and a pointer
\* event of a frame was handed to it
C37_Witness ==
    /\ backend = "wayland"
    /\ Len(wl_windows) = 2
    /\ window = 2
    /\ cur.kind = "pointer_frame"
    /\ \E i \in InputCalls : log[i].ws = 2

(* ------------------------------ C38 ----------------------------------- *)
\* the key the KeyDown of a press of the current event's key carries
PressedKey ==
    IF backend = "x11"
      THEN RenameReturn(to_lowercase(
               key_get_syms_by_level(keymap, cur.detail.code)[1]))
      ELSE to_lowercase(Or(keysym_to_key(cur.detail.keysym),
                           utf8(cur.detail.keysym)))

\* C38: in both variants the KeyUp handed to a window on the release of a
\* key that is not a modifier carries the key of the KeyDown of its press,
\* the renaming of return to enter included.
C38_KeyUpCarriesPressedKey ==
    \A i \in InputCalls :
        log[i].input.type = "KeyUp" => log[i].input.key = PressedKey

(* ------------------------------ C39 ----------------------------------- *)
\* the requests of the given kind sent while the current event is handled
Sent(what) == {i \in DOMAIN log : log[i].method = what}

\* C39: every xdg_surface Configure is acknowledged exactly once, with its
\* serial, before the window with that surface is updated and committed,
\* and also when no registered window has that surface; every Ping is
\* answered with one pong of its serial.
C39_ConfigureAckedPingAnswered ==
    /\ cur.kind = "xdg_configure" =>
          /\ Sent("ack_configure") = {1}
          /\ log[1] = Request("ack_configure", cur.detail.serial)
          /\ \A i \in Sent("update") : i > 1
    /\ cur.kind = "ping" =>
          /\ Sent("pong") = {1}
          /\ log[1] = Request("pong", cur.detail.serial)

\* C39 witness: a Configure with serial 2 for a surface no window has was
\* acknowledged
C39_Witness ==
    /\ cur.kind = "xdg_configure"
    /\ ~cur.known
    /\ cur.detail.serial = 2
    /\ log = <<Request("ack_configure", 2)>>

(* ------------------------------ C40 ----------------------------------- *)
\* the on-frame slot of the window
FrameSlot == slots["request_frame_callback"]

\* C40 as stated: while a frame callback runs inside redraw the on-frame
\* slot is empty and the window lock is not held, so that a nested redraw
\* invokes nothing and no second frame callback is entered; and once
\* redraw has returned the slot is non-empty again.
C40_SlotEmptyDuringFrame ==
    /\ redraws # <<>> =>
          FrameSlot = 0 /\ ~window_lock /\ Len(redraws) = 1
    /\ redraws = <<>> /\ tick.fired # 0 => FrameSlot # 0

\* C40 amended: redraw enters the callback it took out of the slot, with
\* the slot left empty and the window lock not held, and it enters nothing
\* when the slot is empty; while a frame callback runs the slot is filled
\* only by a registration made from inside it (which a nested redraw then
\* invokes); and when redraw returns the slot holds the callback it had
\* taken out, so it is non-empty whenever it was non-empty before.
C40_SlotEmptyOnEntry ==
    [][/\ Len(redraws') > Len(redraws) =>
             /\ FrameSlot # 0
             /\ redraws' = Append(redraws, FrameSlot)
             /\ FrameSlot' = 0
             /\ ~window_lock'
       /\ (redraws # <<>> /\ redraws' = redraws /\ FrameSlot' # FrameSlot) =>
             /\ slot_regs' = slot_regs + 1
             /\ FrameSlot' = frame_reg'
       /\ Len(redraws') < Len(redraws) =>
             /\ FrameSlot' = redraws[Len(redraws)]
             /\ FrameSlot' # 0]_vars

\* C40 witness: a frame callback registered another one while it ran, a
\* nested redraw has taken that one out and runs it, and the slot is empty
C40_Witness ==
    /\ redraws = <<1, 2>>
    /\ frame_reg = 2
    /\ FrameSlot = 0
    /\ window_fault = "none"

====
